---- MODULE Spec2Model ----
(***************************************************************************)
(* Hybrid retrieval engine of the council backend: the CouncilRAG facade   *)
(* (backend/rag.py) over a Chroma collection and the HybridRetriever       *)
(* (backend/hybrid_retrieval.py) that fuses a BM25 ranking with a dense    *)
(* ranking by reciprocal rank fusion.                                      *)
(*                                                                         *)
(* Strings are sequences of atoms.  A text is a run-length encoded word    *)
(* sequence: <<[w |-> "Paris", n |-> 3]>> is "Paris Paris Paris".          *)
(* Fused scores are exact fractions [num, den].                            *)
(***************************************************************************)
EXTENDS Integers, Sequences, FiniteSets, TLC

VARIABLES
    enabled,            \* CouncilRAG.enabled
    store,              \* the Chroma collection: sequence of stored documents
    clock,              \* number of datetime.utcnow() readings so far
    bm25_index,         \* HybridRetriever.bm25_index
    doc_ids,            \* HybridRetriever.doc_ids
    id_to_doc,          \* HybridRetriever.id_to_doc
    id_to_metadata,     \* HybridRetriever.id_to_metadata
    lastOp,             \* the last public operation called, with its arguments
    storeCalls,         \* the collection calls the last operation made, in order
    raised,             \* whether the last operation propagated an exception
    failure,            \* the step of the last operation that raised, or "none"
    built_from,         \* reply of collection.get() used by the last rebuild
    trace,              \* locals of the last HybridRetriever.retrieve
    results,            \* return value of the last HybridRetriever.retrieve
    included,           \* ids of the chunks formatted into the context
    context,            \* return value of the last CouncilRAG.retrieve
    writer,             \* threads that write (rebuild, index_session): position, locals
    reader,             \* a thread inside HybridRetriever.retrieve: position, locals
    handler             \* a message handler of main.py: position, locals, log

program == <<enabled, store, clock, bm25_index, doc_ids, id_to_doc, id_to_metadata>>

observed == <<lastOp, storeCalls, raised, failure, built_from, trace, results,
              included, context>>

threads == <<writer, reader, handler>>

vars == <<program, observed, threads>>

snapshot == <<bm25_index, doc_ids, id_to_doc, id_to_metadata>>

-----------------------------------------------------------------------------
(* Bounds of the model *)

MaxClock == 2        \* index_session calls that reach the upsert code
MaxDocs == 2         \* documents in the collection

(* Program constants *)

RAG_MAX_TOKENS == 3000
TOP_K == 10
K_CONST == 60
DEFAULT_AVG_RANK == 999
DEFAULT_CONSENSUS == 0

(* Exact fractions, for the float scores of rank fusion *)

Frac(n, d) == [num |-> n, den |-> d]
FZero == Frac(0, 1)
FAdd(a, b) == Frac(a.num * b.den + b.num * a.den, a.den * b.den)
FLess(a, b) == a.num * b.den < b.num * a.den
FEq(a, b) == a.num * b.den = b.num * a.den

DEFAULT_WEIGHT == Frac(1, 2)
THRESHOLD == Frac(1, 100)

-----------------------------------------------------------------------------
(* Strings and texts *)

Run(w, n) == [w |-> w, n |-> n]

IntStr(n) == <<"0", "1", "2", "3", "4", "5", "6", "7", "8", "9">>[n + 1]

\* str.lower() on the vocabulary of the model
Lower(w) ==
    CASE w = "Paris" -> "paris"
      [] w = "Capital" -> "capital"
      [] w = "Rome" -> "rome"
      [] w = "Q:" -> "q:"
      [] w = "A:" -> "a:"
      [] OTHER -> w

RECURSIVE SumRuns(_)
SumRuns(text) ==
    IF text = <<>> THEN 0 ELSE Head(text).n + SumRuns(Tail(text))

\* len(text.split())
WordCount(text) == SumRuns(text)

\* text.lower().split(), run-length encoded
Tokenize(text) == [i \in 1..Len(text) |-> Run(Lower(text[i].w), text[i].n)]

Terms(tokens) == {tokens[i].w : i \in 1..Len(tokens)}

-----------------------------------------------------------------------------
(* Inputs *)

Convs == {<<"c1">>, <<"c2">>}
Council == <<(<<"m1">>), (<<"m2">>)>>
Chair == <<"chair">>
Unknown == <<"unknown">>

Question == <<Run("Capital", 1)>>
RespEmpty == <<>>
RespShort == <<Run("Paris", 3)>>
RespLong == <<Run("Paris", 1151)>>
RespHuge == <<Run("Rome", 1200)>>

Queries == {<<Run("capital", 1)>>, <<Run("Rome", 1)>>}

Opinion(m, t) == [model |-> m, response |-> t]

\* stage1_results: the council members that answered, in council order
Stage1Inputs ==
    { <<>>,
      <<Opinion(Council[1], RespLong), Opinion(Council[2], RespLong)>> }

\* stage3_result: a dict that may lack keys
Stage3Inputs ==
    { [model |-> Chair, response |-> RespEmpty],
      [model |-> Chair, response |-> RespHuge],
      [response |-> RespShort] }

\* quality_metrics: per-model dict, "m1" ranked, the others not
QualityInput == [m \in {Council[1]} |-> [avg_rank |-> 1, consensus_score |-> 1]]

TopicsInput == <<"geography">>

Get(d, k, default) == IF k \in DOMAIN d THEN d[k] ELSE default

-----------------------------------------------------------------------------
(* The Chroma collection *)

IdsOf(st) == {st[i].id : i \in 1..Len(st)}

IndexOfId(st, id) == CHOOSE i \in 1..Len(st) : st[i].id = id

\* a variant that keeps the stored text of an existing record and replaces
\* only its metadata
UpsertOne_MetadataOnly(st, d) ==
    IF d.id \in IdsOf(st)
    THEN [st EXCEPT ![IndexOfId(st, d.id)].metadata = d.metadata]
    ELSE Append(st, d)

\* a variant: add() instead of upsert(): the document is always appended
UpsertOne_Append(st, d) == Append(st, d)

\* collection.upsert of one document: overwrite in place or append
UpsertOne(st, d) ==
    IF d.id \in IdsOf(st)
    THEN [st EXCEPT ![IndexOfId(st, d.id)] = d]
    ELSE Append(st, d)

RECURSIVE Upsert(_, _)
\* collection.upsert(ids, documents, metadatas)
Upsert(st, batch) ==
    IF batch = <<>> THEN st
    ELSE Upsert(UpsertOne(st, Head(batch)), Tail(batch))

\* collection.get(include=["documents", "metadatas"])
GetAll(st) ==
    [ids |-> [i \in 1..Len(st) |-> st[i].id],
     documents |-> [i \in 1..Len(st) |-> st[i].document],
     metadatas |-> [i \in 1..Len(st) |-> st[i].metadata]]

-----------------------------------------------------------------------------
(* CouncilRAG.index_session *)

format_text(user_question, text) ==
    <<Run("Q:", 1)>> \o user_question \o <<Run("A:", 1)>> \o text

json_dumps(topics) == <<"[">> \o topics \o <<"]">>

OpinionId(conversation_id, turn_index, idx, model) ==
    conversation_id \o <<":", "turn", ":", IntStr(turn_index), ":", "opinion",
                          ":", IntStr(idx), ":">> \o model

SynthesisId(conversation_id, turn_index, stage3_model) ==
    conversation_id \o <<":", "turn", ":", IntStr(turn_index), ":",
                          "synthesis", ":">> \o stage3_model

Metadata(conversation_id, turn_index, stage, model, topics, quality, timestamp) ==
    [conversation_id |-> conversation_id,
     turn_index |-> turn_index,
     stage |-> stage,
     model |-> model,
     topics |-> json_dumps(topics),
     avg_rank |-> Get(quality, "avg_rank", DEFAULT_AVG_RANK),
     consensus_score |-> Get(quality, "consensus_score", DEFAULT_CONSENSUS),
     timestamp |-> timestamp]

NoQuality == [k \in {} |-> 0]

\* the loop over stage1_results, rag.py 100-117; idx is enumerate's 0-based index
OpinionDocs(a, timestamp) ==
    [i \in 1..Len(a.stage1_results) |->
        LET res == a.stage1_results[i]
            quality == Get(a.quality_metrics, res.model, NoQuality)
        IN [id |-> OpinionId(a.conversation_id, a.turn_index, i - 1, res.model),
            document |-> format_text(a.user_question, res.response),
            metadata |-> Metadata(a.conversation_id, a.turn_index, "opinion",
                                  res.model, a.topics, quality, timestamp)]]

\* a variant that builds the synthesis document even when the text is empty
SynthesisDocs_Always(a, timestamp) ==
    LET stage3_model == Get(a.stage3_result, "model", Unknown)
        final_text == Get(a.stage3_result, "response", RespEmpty)
        quality == Get(a.quality_metrics, stage3_model, NoQuality)
    IN << [id |-> SynthesisId(a.conversation_id, a.turn_index, stage3_model),
           document |-> format_text(a.user_question, final_text),
           metadata |-> Metadata(a.conversation_id, a.turn_index, "synthesis",
                                 stage3_model, a.topics, quality, timestamp)] >>

\* the synthesis document, rag.py 119-137: none when the text is empty
SynthesisDocs(a, timestamp) ==
    LET stage3_model == Get(a.stage3_result, "model", Unknown)
        final_text == Get(a.stage3_result, "response", RespEmpty)
        quality == Get(a.quality_metrics, stage3_model, NoQuality)
    IN IF final_text # <<>>
       THEN << [id |-> SynthesisId(a.conversation_id, a.turn_index, stage3_model),
                document |-> format_text(a.user_question, final_text),
                metadata |-> Metadata(a.conversation_id, a.turn_index, "synthesis",
                                      stage3_model, a.topics, quality, timestamp)] >>
       ELSE <<>>

SessionDocs(a, timestamp) == OpinionDocs(a, timestamp) \o SynthesisDocs(a, timestamp)

-----------------------------------------------------------------------------
(* HybridRetriever: the lexical snapshot *)

Range(f) == {f[x] : x \in DOMAIN f}

Min(a, b) == IF a < b THEN a ELSE b

Perms(S) == {p \in [1..Cardinality(S) -> S] : \A i, j \in DOMAIN p : p[i] = p[j] => i = j}

\* list.index / enumerate position, counted from 1
PositionIn(seq, x) == CHOOSE i \in 1..Len(seq) : seq[i] = x

NoIndex == [built |-> FALSE, corpus |-> <<>>]

\* BM25Okapi(tokenized): the index is a function of the tokenized corpus
BM25Okapi(tokenized) == [built |-> TRUE, corpus |-> tokenized]

EmptySnap ==
    [bm25_index |-> NoIndex, doc_ids |-> <<>>, id_to_doc |-> <<>>, id_to_metadata |-> <<>>]

CurrentSnap ==
    [bm25_index |-> bm25_index, doc_ids |-> doc_ids,
     id_to_doc |-> id_to_doc, id_to_metadata |-> id_to_metadata]

\* dict(zip(ids, values)): a later duplicate key wins
ZipDict(ids, values) ==
    [d \in Range(ids) |->
        values[CHOOSE i \in 1..Min(Len(ids), Len(values)) :
                  /\ ids[i] = d
                  /\ \A j \in 1..Min(Len(ids), Len(values)) : ids[j] = d => j <= i]]

\* a variant: no early return for an empty collection
Rebuilt_NoEmptyCheck(all_docs) ==
    [bm25_index |->
         BM25Okapi([i \in 1..Len(all_docs.documents) |->
                       Tokenize(all_docs.documents[i])]),
     doc_ids |-> all_docs.ids,
     id_to_doc |-> ZipDict(all_docs.ids, all_docs.documents),
     id_to_metadata |-> ZipDict(all_docs.ids, all_docs.metadatas)]

\* HybridRetriever._rebuild_bm25_index applied to the reply of collection.get()
Rebuilt(all_docs) ==
    IF all_docs.ids = <<>> \/ all_docs.documents = <<>>
    THEN EmptySnap
    ELSE [bm25_index |->
              BM25Okapi([i \in 1..Len(all_docs.documents) |->
                            Tokenize(all_docs.documents[i])]),
          doc_ids |-> all_docs.ids,
          id_to_doc |-> ZipDict(all_docs.ids, all_docs.documents),
          id_to_metadata |-> ZipDict(all_docs.ids, all_docs.metadatas)]

-----------------------------------------------------------------------------
(* HybridRetriever.retrieve, step by step *)

ScoreVals == {-1, 1}
Distances == {25}          \* cosine distances, in hundredths

Matches(doc_tokens, query_tokens) == Terms(doc_tokens) \cap Terms(query_tokens) # {}

\* bm25_index.get_scores(query_tokens): the library's scores are real numbers
\* that depend on the corpus statistics; a document sharing no term with the
\* query scores exactly 0, equal documents score equally, and a matching
\* document may score positive or negative (rank_bm25 floors a negative idf
\* at epsilon * average idf, which can itself be negative).
GetScores(index, query_tokens) ==
    {sc \in [1..Len(index.corpus) -> ScoreVals \cup {0}] :
        /\ \A i \in 1..Len(index.corpus) :
              (sc[i] = 0) <=> ~Matches(index.corpus[i], query_tokens)
        /\ \A i, j \in 1..Len(index.corpus) :
              index.corpus[i] = index.corpus[j] => sc[i] = sc[j]}

\* a variant that keeps every position: the slice [: top_k * 2] is left out
ArgsortDesc_Uncut(sc, n) ==
    {q \in Perms(1..Len(sc)) :
        \A i, j \in 1..Len(sc) : i < j => sc[q[i]] >= sc[q[j]]}

\* np.argsort(bm25_scores)[::-1][: top_k * 2]: ties in no guaranteed order
ArgsortDesc(sc, n) ==
    {SubSeq(p, 1, Min(n, Len(sc))) : p \in
        {q \in Perms(1..Len(sc)) :
            \A i, j \in 1..Len(sc) : i < j => sc[q[i]] >= sc[q[j]]}}

NoneVal == <<"<None>">>
NoMeta == [k \in {} |-> 0]

\* a variant: the conversation filter of the lexical path is dropped
ConvMatches_Any(meta, conversation_id) == TRUE

\* meta.get("conversation_id") != conversation_id  -> continue
ConvMatches(meta, conversation_id) ==
    Get(meta, "conversation_id", NoneVal) = conversation_id

\* a variant: the loop indexes doc_ids by the rank position, not by idx
BM25Results_ByRank(snap, sc, top, conversation_id) ==
    LET admitted ==
            {r \in 1..Len(top) :
                /\ ~(sc[top[r]] <= 0)
                /\ ConvMatches(Get(snap.id_to_metadata, snap.doc_ids[r], NoMeta),
                               conversation_id)}
    IN [d \in {snap.doc_ids[r] : r \in admitted} |->
           LET r == CHOOSE x \in admitted : snap.doc_ids[x] = d
           IN <<r, sc[top[r]]>>]

\* the loop of hybrid_retrieval.py 109-121 over the ranked positions
BM25Results(snap, sc, top, conversation_id) ==
    LET admitted ==
            {r \in 1..Len(top) :
                /\ ~(sc[top[r]] <= 0)
                /\ ConvMatches(Get(snap.id_to_metadata, snap.doc_ids[top[r]], NoMeta),
                               conversation_id)}
    IN [d \in {snap.doc_ids[top[r]] : r \in admitted} |->
           LET r == CHOOSE x \in admitted :
                       /\ snap.doc_ids[top[x]] = d
                       /\ \A y \in admitted : snap.doc_ids[top[y]] = d => y <= x
           IN <<r, sc[top[r]]>>]

\* collection.query(query_texts, n_results, where={"conversation_id": ...}):
\* the documents of the conversation, nearest first, at most n_results
DenseQuery(st, conversation_id, n) ==
    LET match == {i \in 1..Len(st) :
                     Get(st[i].metadata, "conversation_id", NoneVal) = conversation_id}
    IN UNION { { [k \in 1..Min(n, Len(p)) |-> [id |-> st[p[k]].id, distance |-> ds[k]]] :
                 ds \in {x \in [1..Min(n, Len(p)) -> Distances] :
                            \A i, j \in DOMAIN x : i < j => x[i] <= x[j]} } :
               p \in Perms(match) }

\* hybrid_retrieval.py 130-140: rank and similarity = 1 - distance per id
DenseResultDict(dense) ==
    [d \in {dense[k].id : k \in 1..Len(dense)} |->
        LET k == CHOOSE x \in 1..Len(dense) :
                    /\ dense[x].id = d
                    /\ \A y \in 1..Len(dense) : dense[y].id = d => y <= x
        IN <<k, 100 - dense[k].distance>>]

\* a variant that leaves the constant out: weight / rank
RRFTerm_NoConstant(weight, rank) == Frac(weight.num, weight.den * rank)

RRFTerm(weight, rank) == Frac(weight.num, weight.den * (K_CONST + rank))

\* a variant that scales the lexical term by the raw BM25 score
CombinedScores_RawScore(bm25_results, dense_result_dict, bm25_weight, dense_weight) ==
    [d \in (DOMAIN bm25_results) \cup (DOMAIN dense_result_dict) |->
        LET s0 == FZero
            s1 == IF d \in DOMAIN bm25_results
                  THEN FAdd(s0, Frac(bm25_weight.num * bm25_results[d][2],
                                     bm25_weight.den * (K_CONST + bm25_results[d][1])))
                  ELSE s0
        IN IF d \in DOMAIN dense_result_dict
           THEN FAdd(s1, RRFTerm(dense_weight, dense_result_dict[d][1]))
           ELSE s1]

\* a variant that ranks an identifier missing from a list after its last entry
CombinedScores_RankMissing(bm25_results, dense_result_dict, bm25_weight, dense_weight) ==
    [d \in (DOMAIN bm25_results) \cup (DOMAIN dense_result_dict) |->
        LET size(m) == Cardinality(DOMAIN m)
            lex == IF d \in DOMAIN bm25_results
                   THEN bm25_results[d][1] ELSE size(bm25_results) + 1
            den == IF d \in DOMAIN dense_result_dict
                   THEN dense_result_dict[d][1] ELSE size(dense_result_dict) + 1
        IN FAdd(FAdd(FZero, RRFTerm(bm25_weight, lex)), RRFTerm(dense_weight, den))]

\* hybrid_retrieval.py 146-158
CombinedScores(bm25_results, dense_result_dict, bm25_weight, dense_weight) ==
    [d \in (DOMAIN bm25_results) \cup (DOMAIN dense_result_dict) |->
        LET s0 == FZero
            s1 == IF d \in DOMAIN bm25_results
                  THEN FAdd(s0, RRFTerm(bm25_weight, bm25_results[d][1]))
                  ELSE s0
        IN IF d \in DOMAIN dense_result_dict
           THEN FAdd(s1, RRFTerm(dense_weight, dense_result_dict[d][1]))
           ELSE s1]

\* a variant that sorts by ascending score
SortedIds_Ascending(combined_scores, top_k) ==
    {SubSeq(p, 1, Min(top_k, Len(p))) : p \in
        {q \in Perms(DOMAIN combined_scores) :
            \A i, j \in DOMAIN q :
                i < j => ~FLess(combined_scores[q[j]], combined_scores[q[i]])}}

\* sorted(combined_scores.keys(), key=score, reverse=True)[:top_k]: equal
\* scores keep the iteration order of a set of strings, which is arbitrary
SortedIds(combined_scores, top_k) ==
    {SubSeq(p, 1, Min(top_k, Len(p))) : p \in
        {q \in Perms(DOMAIN combined_scores) :
            \A i, j \in DOMAIN q :
                i < j => ~FLess(combined_scores[q[i]], combined_scores[q[j]])}}

\* collection.get(ids=sorted_ids): the stored documents among the ids; an id
\* deleted from the collection by another client is simply not returned
FetchByIds(st, ids) ==
    LET full == {i \in 1..Len(st) : st[i].id \in Range(ids)}
    IN {[d \in {st[i].id : i \in keep} |-> st[IndexOfId(st, d)]] :
           keep \in {full} \cup {full \ {i} : i \in full}}

\* a variant that takes text and metadata from the lexical snapshot
Results_FromSnapshot(sorted_ids, combined_scores, doc_map) ==
    [k \in 1..Len(sorted_ids) |->
        LET d == sorted_ids[k]
        IN [id |-> d,
            score |-> combined_scores[d],
            metadata |-> Get(id_to_metadata, d, NoMeta),
            text |-> Get(id_to_doc, d, <<>>)]]

\* hybrid_retrieval.py 181-197
Results(sorted_ids, combined_scores, doc_map) ==
    [k \in 1..Len(sorted_ids) |->
        LET d == sorted_ids[k]
        IN [id |-> d,
            score |-> combined_scores[d],
            metadata |-> IF d \in DOMAIN doc_map THEN doc_map[d].metadata ELSE NoMeta,
            text |-> IF d \in DOMAIN doc_map THEN doc_map[d].document ELSE <<>>]]

NoTrace ==
    [ran |-> FALSE, bm25_results |-> <<>>, dense_result_dict |-> <<>>,
     combined_scores |-> <<>>, sorted_ids |-> <<>>]

Trace(bm25_results, dense_result_dict, combined_scores, sorted_ids) ==
    [ran |-> TRUE, bm25_results |-> bm25_results,
     dense_result_dict |-> dense_result_dict,
     combined_scores |-> combined_scores, sorted_ids |-> sorted_ids]

NoDocs == [ids |-> <<>>, documents |-> <<>>, metadatas |-> <<>>]

\* one way a HybridRetriever.retrieve call can end: the snapshot it leaves
\* (with the collection reply it was built from), the collection calls it
\* made, the step that raised ("none": it returned), its locals and result
HybridOutcome(snap, built, calls, fail, tr, res) ==
    [snap |-> snap, built |-> built, calls |-> calls, failure |-> fail,
     trace |-> tr, results |-> res]

\* hybrid_retrieval.py 142-207, given both candidate dicts
FusionOutcomes(snap, built, calls, bm25_results, dense_result_dict, top_k, bm25_weight, dense_weight) ==
    LET combined_scores ==
            CombinedScores(bm25_results, dense_result_dict, bm25_weight, dense_weight)
    IN IF DOMAIN combined_scores = {}
       THEN {HybridOutcome(snap, built, calls, "none",
                           Trace(bm25_results, dense_result_dict, combined_scores, <<>>),
                           <<>>)}
       ELSE UNION {
              {HybridOutcome(snap, built, Append(calls, "get"), "get", NoTrace, <<>>)}
              \cup
              {HybridOutcome(snap, built, Append(calls, "get"), "none",
                             Trace(bm25_results, dense_result_dict, combined_scores,
                                   sorted_ids),
                             Results(sorted_ids, combined_scores, doc_map)) :
                  doc_map \in FetchByIds(store, sorted_ids)} :
              sorted_ids \in SortedIds(combined_scores, top_k)}

\* hybrid_retrieval.py 94-140, on the snapshot left by _ensure_index
ScoringOutcomes(snap, built, calls, query, conversation_id, top_k, bm25_weight, dense_weight) ==
    IF snap.doc_ids = <<>> \/ snap.bm25_index = NoIndex
    THEN {HybridOutcome(snap, built, calls, "none", NoTrace, <<>>)}
    ELSE LET query_tokens == Tokenize(query)
             lexical ==
                 UNION {{BM25Results(snap, sc, top, conversation_id) :
                            top \in ArgsortDesc(sc, top_k * 2)} :
                        sc \in GetScores(snap.bm25_index, query_tokens)}
             calls2 == Append(calls, "query")
         IN {HybridOutcome(snap, built, calls2, "query", NoTrace, <<>>)}
            \cup
            UNION {UNION {FusionOutcomes(snap, built, calls2, bm25_results,
                                         DenseResultDict(dense), top_k,
                                         bm25_weight, dense_weight) :
                             dense \in DenseQuery(store, conversation_id, top_k * 2)} :
                   bm25_results \in lexical}

\* _ensure_index, hybrid_retrieval.py 68-70
NeedsBuild == bm25_index = NoIndex

\* HybridRetriever.retrieve: _ensure_index, then scoring and fusion.  Each
\* collection call may raise; the exception leaves the method at once.
HybridRetrieve(query, conversation_id, top_k, bm25_weight, dense_weight) ==
    IF NeedsBuild
    THEN {HybridOutcome(CurrentSnap, built_from, <<"get">>, "get_all", NoTrace, <<>>)}
         \cup ScoringOutcomes(Rebuilt(GetAll(store)), GetAll(store), <<"get">>, query,
                              conversation_id, top_k, bm25_weight, dense_weight)
    ELSE ScoringOutcomes(CurrentSnap, built_from, <<>>, query, conversation_id, top_k,
                         bm25_weight, dense_weight)

-----------------------------------------------------------------------------
(* CouncilRAG.retrieve: threshold, token budget, formatting *)

EmptyString == <<>>

\* int(len(text.split()) * 1.3)
EstTokens(text) == (WordCount(text) * 13) \div 10

\* a variant that lets every score pass
BelowThreshold_Never(score) == FALSE

\* rag.py 187: score < threshold -> continue
BelowThreshold(score) == FLess(score, THRESHOLD)

\* rag.py 184-200: the results that pass the threshold, as chunks
FilteredChunks(res) ==
    LET keep(r) == ~BelowThreshold(r.score)
        kept == SelectSeq(res, keep)
    IN [k \in 1..Len(kept) |->
           [id |-> kept[k].id, similarity |-> kept[k].score,
            metadata |-> kept[k].metadata, text |-> kept[k].text]]

RECURSIVE Packed_Continue(_, _)
\* a variant that skips a chunk over the budget and goes on to the next
Packed_Continue(chunks, used_tokens) ==
    IF chunks = <<>> THEN <<>>
    ELSE LET est_tokens == EstTokens(Head(chunks).text)
         IN IF used_tokens + est_tokens > RAG_MAX_TOKENS
            THEN Packed_Continue(Tail(chunks), used_tokens)
            ELSE <<Head(chunks)>>
                 \o Packed_Continue(Tail(chunks), used_tokens + est_tokens)

RECURSIVE Packed(_, _)
\* rag.py 211-220: the chunks appended before the loop ends or breaks
Packed(chunks, used_tokens) ==
    IF chunks = <<>> THEN <<>>
    ELSE LET est_tokens == EstTokens(Head(chunks).text)
         IN IF used_tokens + est_tokens > RAG_MAX_TOKENS
            THEN <<>>
            ELSE <<Head(chunks)>> \o Packed(Tail(chunks), used_tokens + est_tokens)

\* _format_chunk raises KeyError when a label field is missing
CanFormat(chunk) == {"turn_index", "stage", "model"} \subseteq DOMAIN chunk.metadata

\* _format_chunk: "[Turn t | Stage s | Model: m]" over the chunk text
FormatChunk(chunk) ==
    [label |-> <<"[Turn", IntStr(chunk.metadata.turn_index), "|", "Stage",
                 chunk.metadata.stage, "|", "Model:">> \o chunk.metadata.model \o <<"]">>,
     body |-> chunk.text]

Separator == [label |-> <<"\n\n">>, body |-> <<>>]

RECURSIVE Join(_)
\* "\n\n".join(formatted_parts)
Join(parts) ==
    IF parts = <<>> THEN EmptyString
    ELSE IF Len(parts) = 1 THEN parts
    ELSE <<Head(parts), Separator>> \o Join(Tail(parts))

\* the formatted blocks of a context string, separators dropped
Blocks(ctx) == [k \in 1..((Len(ctx) + 1) \div 2) |-> ctx[2 * k - 1]]

\* a variant: no try/except around the body of retrieve
RagOutcome_NoCatch(h) ==
    LET packed == Packed(FilteredChunks(h.results), 0)
        key_error == \E k \in 1..Len(packed) : ~CanFormat(packed[k])
        fail == IF h.failure # "none" THEN h.failure
                ELSE IF key_error THEN "format" ELSE "none"
    IN [snap |-> h.snap, built |-> h.built, calls |-> h.calls,
        raised |-> fail # "none",
        failure |-> fail, trace |-> h.trace,
        results |-> h.results,
        included |-> IF fail # "none" THEN <<>>
                     ELSE [k \in 1..Len(packed) |-> packed[k].id],
        context |-> IF fail # "none" THEN EmptyString
                    ELSE Join([k \in 1..Len(packed) |-> FormatChunk(packed[k])])]

\* rag.py 165-232: the try block over one outcome of the hybrid retriever;
\* every exception is caught, logged and turned into the empty string
RagOutcome(h) ==
    LET packed == Packed(FilteredChunks(h.results), 0)
        key_error == \E k \in 1..Len(packed) : ~CanFormat(packed[k])
        fail == IF h.failure # "none" THEN h.failure
                ELSE IF key_error THEN "format" ELSE "none"
    IN [snap |-> h.snap, built |-> h.built, calls |-> h.calls, raised |-> FALSE,
        failure |-> fail, trace |-> h.trace,
        results |-> h.results,
        included |-> IF fail # "none" THEN <<>>
                     ELSE [k \in 1..Len(packed) |-> packed[k].id],
        context |-> IF fail # "none" THEN EmptyString
                    ELSE Join([k \in 1..Len(packed) |-> FormatChunk(packed[k])])]

-----------------------------------------------------------------------------
(* Operations of CouncilRAG *)

IndexArgs ==
    [conversation_id : Convs, turn_index : {0}, user_question : {Question},
     stage1_results : Stage1Inputs, stage3_result : Stage3Inputs,
     topics : {TopicsInput}, quality_metrics : {QualityInput}]

Op(name, args, again) == [name |-> name, args |-> args, again |-> again]

\* no thread is inside the retriever: its methods run one call at a time
Parked == [pc |-> "parked"]

\* no request is being handled
NoHandler == [status |-> "none"]

\* CouncilRAG.__init__: the try block succeeds (enabled) or fails (disabled)
Init ==
    /\ enabled \in BOOLEAN
    /\ store = <<>>
    /\ clock = 0
    /\ bm25_index = NoIndex
    /\ doc_ids = <<>>
    /\ id_to_doc = <<>>
    /\ id_to_metadata = <<>>
    /\ lastOp = Op("init", <<>>, FALSE)
    /\ storeCalls = <<>>
    /\ raised = FALSE
    /\ failure = "none"
    /\ built_from = NoDocs
    /\ trace = NoTrace
    /\ results = <<>>
    /\ included = <<>>
    /\ context = EmptyString
    /\ writer = Parked
    /\ reader = Parked
    /\ handler = NoHandler

Install(snap) ==
    /\ bm25_index' = snap.bm25_index
    /\ doc_ids' = snap.doc_ids
    /\ id_to_doc' = snap.id_to_doc
    /\ id_to_metadata' = snap.id_to_metadata

NoResult ==
    /\ trace' = NoTrace
    /\ results' = <<>>
    /\ included' = <<>>
    /\ context' = EmptyString

\* The observation variables record one call.  No operation reads them, so
\* the result of a retrieve is handed to its caller (Return) before the next
\* call is recorded; the program state moves exactly as without them.
Idle == lastOp.name \notin {"retrieve", "hybrid_retrieve"}

\* a variant: index_session without its early return
IndexDisabled_Never == FALSE

\* rag.py 81: if not self.enabled: return
IndexDisabled == ~enabled

\* rag.py 53: if self.enabled and self.hybrid_retriever
RefreshEnabled == enabled

\* rag.py 159: if not self.enabled: return ""
RetrieveDisabled == ~enabled

\* a variant of index_session that rebuilds the lexical index after the upsert
IndexSession_Rebuilds(a) ==
    /\ Idle
    /\ lastOp' = Op("index_session", a,
                    lastOp.name = "index_session" /\ lastOp.args = a /\ ~raised)
    /\ NoResult
    /\ UNCHANGED <<enabled, threads>>
    /\ IF IndexDisabled
       THEN /\ storeCalls' = <<>>
            /\ raised' = FALSE
            /\ failure' = "none"
            /\ UNCHANGED <<store, clock, bm25_index, doc_ids, id_to_doc,
                           id_to_metadata, built_from>>
       ELSE LET docs == SessionDocs(a, clock)
            IN /\ clock < MaxClock
               /\ Len(Upsert(store, docs)) <= MaxDocs
               /\ clock' = clock + 1
               /\ IF docs = <<>>
                  THEN /\ storeCalls' = <<>>
                       /\ raised' = FALSE
                       /\ failure' = "none"
                       /\ UNCHANGED <<store, bm25_index, doc_ids, id_to_doc,
                                      id_to_metadata, built_from>>
                  ELSE \/ /\ store' = Upsert(store, docs)
                          /\ storeCalls' = <<"upsert", "get">>
                          /\ Install(Rebuilt(GetAll(Upsert(store, docs))))
                          /\ built_from' = GetAll(Upsert(store, docs))
                          /\ raised' = FALSE
                          /\ failure' = "none"
                       \/ /\ storeCalls' = <<"upsert">>
                          /\ raised' = TRUE
                          /\ failure' = "upsert"
                          /\ UNCHANGED <<store, bm25_index, doc_ids, id_to_doc,
                                         id_to_metadata, built_from>>

\* CouncilRAG.index_session; timestamp is the reading of the clock
IndexSession(a) ==
    /\ Idle
    /\ lastOp' = Op("index_session", a,
                    lastOp.name = "index_session" /\ lastOp.args = a /\ ~raised)
    /\ NoResult
    /\ UNCHANGED <<enabled, bm25_index, doc_ids, id_to_doc, id_to_metadata, built_from>>
    /\ UNCHANGED threads
    /\ IF IndexDisabled
       THEN /\ storeCalls' = <<>>
            /\ raised' = FALSE
            /\ failure' = "none"
            /\ UNCHANGED <<store, clock>>
       ELSE LET docs == SessionDocs(a, clock)
            IN /\ clock < MaxClock
               /\ Len(Upsert(store, docs)) <= MaxDocs
               /\ clock' = clock + 1
               /\ IF docs = <<>>
                  THEN /\ storeCalls' = <<>>
                       /\ raised' = FALSE
                       /\ failure' = "none"
                       /\ UNCHANGED store
                  ELSE /\ storeCalls' = <<"upsert">>
                       /\ \/ /\ store' = Upsert(store, docs)
                             /\ raised' = FALSE
                             /\ failure' = "none"
                          \/ /\ UNCHANGED store       \* the upsert raises
                             /\ raised' = TRUE
                             /\ failure' = "upsert"

\* a variant of the refresh that clears the snapshot before it fetches
RefreshHybridIndex_ClearsFirst ==
    /\ Idle
    /\ lastOp' = Op("refresh_hybrid_index", <<>>, FALSE)
    /\ NoResult
    /\ UNCHANGED <<enabled, store, clock, threads>>
    /\ IF RefreshEnabled
       THEN /\ storeCalls' = <<"get">>
            /\ \/ /\ Install(Rebuilt(GetAll(store)))
                  /\ built_from' = GetAll(store)
                  /\ raised' = FALSE
                  /\ failure' = "none"
               \/ /\ Install(EmptySnap)
                  /\ built_from' = NoDocs
                  /\ raised' = TRUE
                  /\ failure' = "get_all"
       ELSE /\ storeCalls' = <<>>
            /\ raised' = FALSE
            /\ failure' = "none"
            /\ UNCHANGED <<bm25_index, doc_ids, id_to_doc, id_to_metadata, built_from>>

\* CouncilRAG.refresh_hybrid_index -> HybridRetriever.refresh_index
RefreshHybridIndex ==
    /\ Idle
    /\ lastOp' = Op("refresh_hybrid_index", <<>>, FALSE)
    /\ NoResult
    /\ UNCHANGED <<enabled, store, clock, threads>>
    /\ IF RefreshEnabled
       THEN /\ storeCalls' = <<"get">>
            /\ \/ /\ Install(Rebuilt(GetAll(store)))
                  /\ built_from' = GetAll(store)
                  /\ raised' = FALSE
                  /\ failure' = "none"
               \/ /\ UNCHANGED <<bm25_index, doc_ids, id_to_doc, id_to_metadata,
                                  built_from>>
                  /\ raised' = TRUE                  \* collection.get raises
                  /\ failure' = "get_all"
       ELSE /\ storeCalls' = <<>>
            /\ raised' = FALSE
            /\ failure' = "none"
            /\ UNCHANGED <<bm25_index, doc_ids, id_to_doc, id_to_metadata, built_from>>

\* CouncilRAG.retrieve, but for the threads it leaves alone
RetrieveCall(query, conversation_id) ==
    /\ Idle
    /\ lastOp' = Op("retrieve",
                    [query |-> query, conversation_id |-> conversation_id], FALSE)
    /\ UNCHANGED <<enabled, store, clock>>
    /\ IF RetrieveDisabled
       THEN /\ storeCalls' = <<>>
            /\ raised' = FALSE
            /\ failure' = "none"
            /\ NoResult
            /\ UNCHANGED <<bm25_index, doc_ids, id_to_doc, id_to_metadata, built_from>>
       ELSE \E h \in HybridRetrieve(query, conversation_id, TOP_K,
                                     DEFAULT_WEIGHT, DEFAULT_WEIGHT) :
              LET r == RagOutcome(h)
              IN /\ Install(r.snap)
                 /\ built_from' = r.built
                 /\ storeCalls' = r.calls
                 /\ raised' = r.raised
                 /\ failure' = r.failure
                 /\ trace' = r.trace
                 /\ results' = r.results
                 /\ included' = r.included
                 /\ context' = r.context

\* CouncilRAG.retrieve
Retrieve(query, conversation_id) ==
    /\ RetrieveCall(query, conversation_id)
    /\ UNCHANGED threads

\* the caller of retrieve takes the context string (main.py 261, 401)
Return ==
    /\ ~Idle
    /\ lastOp' = Op("return", <<>>, FALSE)
    /\ storeCalls' = <<>>
    /\ raised' = FALSE
    /\ failure' = "none"
    /\ NoResult
    /\ UNCHANGED <<program, built_from, threads>>

Next ==
    \/ \E a \in IndexArgs : IndexSession(a)
    \/ RefreshHybridIndex
    \/ \E q \in Queries, c \in Convs : Retrieve(q, c)
    \/ Return

Spec == Init /\ [][Next]_vars

-----------------------------------------------------------------------------
(* Retrieval over an indexed collection: the engine after a run of          *)
(* index_session calls, with the lexical index not yet built, built from    *)
(* the whole collection, or built before the last calls (stale).            *)

Args(conversation_id, turn_index, stage1_results, stage3_result) ==
    [conversation_id |-> conversation_id, turn_index |-> turn_index,
     user_question |-> Question, stage1_results |-> stage1_results,
     stage3_result |-> stage3_result, topics |-> TopicsInput,
     quality_metrics |-> QualityInput]

BothOpinions == <<Opinion(Council[1], RespLong), Opinion(Council[2], RespLong)>>

TurnHuge == Args(<<"c1">>, 0, BothOpinions, [model |-> Chair, response |-> RespHuge])
TurnShort == Args(<<"c1">>, 0, BothOpinions, [response |-> RespShort])
TurnOther == Args(<<"c2">>, 0, <<>>, [model |-> Chair, response |-> RespHuge])

\* a turn of three short documents, and the same turn indexed again after the
\* first council member's answer changed
ShortOpinions == <<Opinion(Council[1], RespShort), Opinion(Council[2], RespShort)>>
ChangedOpinions == <<Opinion(Council[1], RespHuge), Opinion(Council[2], RespShort)>>

TurnSmall == Args(<<"c1">>, 0, ShortOpinions, [model |-> Chair, response |-> RespShort])
TurnChanged == Args(<<"c1">>, 0, ChangedOpinions, [model |-> Chair, response |-> RespShort])

RECURSIVE Indexed(_)
\* the collection after the index_session calls of a run, in order
Indexed(calls) ==
    IF calls = <<>> THEN <<>>
    ELSE Upsert(Indexed(SubSeq(calls, 1, Len(calls) - 1)),
                SessionDocs(calls[Len(calls)], Len(calls) - 1))

\* runs of calls, and how many of them the lexical index was built after
Scenarios ==
    { [calls |-> <<TurnHuge>>, built |-> 0],
      [calls |-> <<TurnShort>>, built |-> 0],
      [calls |-> <<TurnOther, TurnHuge>>, built |-> 0],
      [calls |-> <<TurnOther, TurnHuge>>, built |-> 1],
      [calls |-> <<TurnHuge, TurnOther>>, built |-> 1],
      [calls |-> <<TurnSmall>>, built |-> 1],
      [calls |-> <<TurnSmall, TurnChanged>>, built |-> 1] }

InitQuery ==
    /\ enabled = TRUE
    /\ \E sc \in Scenarios :
          LET before == Indexed(SubSeq(sc.calls, 1, sc.built))
              snap == IF sc.built = 0 THEN EmptySnap ELSE Rebuilt(GetAll(before))
          IN /\ store = Indexed(sc.calls)
             /\ clock = Len(sc.calls)
             /\ bm25_index = snap.bm25_index
             /\ doc_ids = snap.doc_ids
             /\ id_to_doc = snap.id_to_doc
             /\ id_to_metadata = snap.id_to_metadata
             /\ built_from = IF sc.built = 0 THEN NoDocs ELSE GetAll(before)
    /\ lastOp = Op("init", <<>>, FALSE)
    /\ storeCalls = <<>>
    /\ raised = FALSE
    /\ failure = "none"
    /\ trace = NoTrace
    /\ results = <<>>
    /\ included = <<>>
    /\ context = EmptyString
    /\ writer = Parked
    /\ reader = Parked
    /\ handler = NoHandler

NextQuery ==
    \/ \E q \in Queries, c \in Convs : Retrieve(q, c)
    \/ RefreshHybridIndex
    \/ Return

SpecQuery == InitQuery /\ [][NextQuery]_vars

-----------------------------------------------------------------------------
(* HybridRetriever.retrieve called on its own, with a top_k of the caller's  *)
(* choice, over the same indexed collections.  Its exceptions reach the      *)
(* caller.                                                                   *)

TopKsDirect == {1, 2, TOP_K}

\* HybridRetriever.retrieve(query, conversation_id, top_k), threads aside
DirectCall(query, conversation_id, top_k) ==
    /\ Idle
    /\ lastOp' = Op("hybrid_retrieve",
                    [query |-> query, conversation_id |-> conversation_id,
                     top_k |-> top_k], FALSE)
    /\ \E h \in HybridRetrieve(query, conversation_id, top_k,
                               DEFAULT_WEIGHT, DEFAULT_WEIGHT) :
          /\ Install(h.snap)
          /\ built_from' = h.built
          /\ storeCalls' = h.calls
          /\ raised' = (h.failure # "none")
          /\ failure' = h.failure
          /\ trace' = h.trace
          /\ results' = h.results
    /\ included' = <<>>
    /\ context' = EmptyString
    /\ UNCHANGED <<enabled, store, clock>>

\* HybridRetriever.retrieve(query, conversation_id, top_k)
HybridCall(query, conversation_id, top_k) ==
    DirectCall(query, conversation_id, top_k) /\ UNCHANGED threads

NextDirect ==
    \/ \E q \in Queries, c \in Convs, k \in TopKsDirect : HybridCall(q, c, k)
    \/ RefreshHybridIndex
    \/ Return

SpecDirect == InitQuery /\ [][NextDirect]_vars

-----------------------------------------------------------------------------
(* Two conversations in one collection: a conversation of one document and  *)
(* a conversation of two.  The handler keeps the locals bm25_scores and      *)
(* top_indices of the last HybridRetriever.retrieve call that scored.        *)

TurnAlone == Args(<<"c1">>, 0, <<>>, [model |-> Chair, response |-> RespShort])
TurnCrowd == Args(<<"c2">>, 0, BothOpinions, [model |-> Chair, response |-> RespEmpty])

TenantScenarios ==
    { [calls |-> <<TurnAlone, TurnCrowd>>, built |-> 0],
      [calls |-> <<TurnAlone, TurnCrowd>>, built |-> 1],
      [calls |-> <<TurnAlone, TurnCrowd>>, built |-> 2],
      [calls |-> <<TurnCrowd, TurnAlone>>, built |-> 2] }

TopKsTenants == {1, 2}

NoLocals == [status |-> "direct", bm25_scores |-> <<>>, top_indices |-> <<>>]

InitTenants ==
    /\ enabled = TRUE
    /\ \E sc \in TenantScenarios :
          LET before == Indexed(SubSeq(sc.calls, 1, sc.built))
              snap == IF sc.built = 0 THEN EmptySnap ELSE Rebuilt(GetAll(before))
          IN /\ store = Indexed(sc.calls)
             /\ clock = Len(sc.calls)
             /\ bm25_index = snap.bm25_index
             /\ doc_ids = snap.doc_ids
             /\ id_to_doc = snap.id_to_doc
             /\ id_to_metadata = snap.id_to_metadata
             /\ built_from = IF sc.built = 0 THEN NoDocs ELSE GetAll(before)
    /\ lastOp = Op("init", <<>>, FALSE)
    /\ storeCalls = <<>>
    /\ raised = FALSE
    /\ failure = "none"
    /\ trace = NoTrace
    /\ results = <<>>
    /\ included = <<>>
    /\ context = EmptyString
    /\ writer = Parked
    /\ reader = Parked
    /\ handler = NoLocals

\* HybridRetriever.retrieve, with the scores (line 103) and the cut argsort
\* (line 106) that produced its lexical candidates
TenantCall(query, conversation_id, top_k) ==
    /\ DirectCall(query, conversation_id, top_k)
    /\ IF trace'.ran
       THEN \E sc \in GetScores(bm25_index', Tokenize(query)) :
               \E top \in ArgsortDesc(sc, top_k * 2) :
                  /\ BM25Results([bm25_index |-> bm25_index', doc_ids |-> doc_ids',
                                  id_to_doc |-> id_to_doc',
                                  id_to_metadata |-> id_to_metadata'],
                                 sc, top, conversation_id) = trace'.bm25_results
                  /\ handler' = [status |-> "direct", bm25_scores |-> sc,
                                 top_indices |-> top]
       ELSE handler' = NoLocals
    /\ UNCHANGED <<writer, reader>>

NextTenants ==
    \/ \E q \in Queries, c \in Convs, k \in TopKsTenants : TenantCall(q, c, k)
    \/ RefreshHybridIndex
    \/ Return

SpecTenants == InitTenants /\ [][NextTenants]_vars

-----------------------------------------------------------------------------
(* A run of chat messages: every chat-mode message calls rag_system.retrieve *)
(* once (main.py 261, 401) and never refresh_hybrid_index.  Turns may be     *)
(* indexed in between.  The handler keeps, for each retrieve of the run, the *)
(* collection calls it made and how it ended.                                *)

MaxRetrieves == 2    \* chat messages of the run

InitChats ==
    /\ enabled \in BOOLEAN
    /\ store = <<>>
    /\ clock = 0
    /\ bm25_index = NoIndex
    /\ doc_ids = <<>>
    /\ id_to_doc = <<>>
    /\ id_to_metadata = <<>>
    /\ lastOp = Op("init", <<>>, FALSE)
    /\ storeCalls = <<>>
    /\ raised = FALSE
    /\ failure = "none"
    /\ built_from = NoDocs
    /\ trace = NoTrace
    /\ results = <<>>
    /\ included = <<>>
    /\ context = EmptyString
    /\ writer = Parked
    /\ reader = Parked
    /\ handler = [status |-> "chat", log |-> <<>>]

\* rag_system.retrieve of one chat message
ChatRetrieve(query, conversation_id) ==
    /\ Len(handler.log) < MaxRetrieves
    /\ RetrieveCall(query, conversation_id)
    /\ handler' = [handler EXCEPT
                      !.log = Append(@, [calls |-> storeCalls', failure |-> failure',
                                         before |-> snapshot, after |-> snapshot'])]
    /\ UNCHANGED <<writer, reader>>

NextChats ==
    \/ \E q \in Queries, c \in Convs : ChatRetrieve(q, c)
    \/ \E a \in IndexArgs : IndexSession(a)
    \/ Return

SpecChats == InitChats /\ [][NextChats]_vars

-----------------------------------------------------------------------------
(* Rank fusion on its own: the fusion step of HybridRetriever.retrieve over  *)
(* candidate dicts and weights drawn from bounded sets.                     *)

MaxRank == 3         \* worst lexical rank of a candidate

FusionIds ==
    { OpinionId(<<"c1">>, 0, 0, Council[1]),
      OpinionId(<<"c1">>, 0, 1, Council[2]),
      SynthesisId(<<"c1">>, 0, Chair) }

Weights == {Frac(0, 1), Frac(1, 4), Frac(1, 2), Frac(1, 1)}

TopKs == {2, TOP_K}

\* raw BM25 scores and similarities (1 - distance, in hundredths) that the
\* candidate dicts carry beside the ranks
RawScores == {1, 2}
Similarities == {50, 75}

\* lexical candidates: rank = position in the argsort of the whole corpus,
\* so the ranks of the candidates that pass the filters may have gaps
LexicalDicts ==
    UNION {{[d \in S |-> <<r[d], raw>>] :
               r \in {f \in [S -> 1..MaxRank] :
                          \A x, y \in S : x # y => f[x] # f[y]},
               raw \in RawScores} :
           S \in SUBSET FusionIds}

\* dense candidates: rank = position in the reply of the collection
DenseDicts ==
    UNION {{[d \in S |-> <<PositionIn(p, d), sim>>] :
               p \in Perms(S), sim \in Similarities} :
           S \in SUBSET FusionIds}

InitFusion ==
    /\ enabled = TRUE
    /\ store = <<>>
    /\ clock = 0
    /\ bm25_index = NoIndex
    /\ doc_ids = <<>>
    /\ id_to_doc = <<>>
    /\ id_to_metadata = <<>>
    /\ built_from = NoDocs
    /\ \E b \in LexicalDicts, d \in DenseDicts, wl \in Weights, wd \in Weights,
          k \in TopKs :
          lastOp = Op("fuse", [bm25_results |-> b, dense_result_dict |-> d,
                               bm25_weight |-> wl, dense_weight |-> wd,
                               top_k |-> k], FALSE)
    /\ storeCalls = <<>>
    /\ raised = FALSE
    /\ failure = "none"
    /\ trace = NoTrace
    /\ results = <<>>
    /\ included = <<>>
    /\ context = EmptyString
    /\ writer = Parked
    /\ reader = Parked
    /\ handler = NoHandler

\* hybrid_retrieval.py 142-169: fuse the two candidate dicts and sort
Fuse ==
    /\ lastOp.name = "fuse"
    /\ ~trace.ran
    /\ LET a == lastOp.args
           combined_scores == CombinedScores(a.bm25_results, a.dense_result_dict,
                                             a.bm25_weight, a.dense_weight)
       IN \E sorted_ids \in SortedIds(combined_scores, a.top_k) :
             trace' = Trace(a.bm25_results, a.dense_result_dict,
                            combined_scores, sorted_ids)
    /\ UNCHANGED threads
    /\ UNCHANGED <<program, lastOp, storeCalls, raised, failure, built_from,
                   results, included, context>>

NextFusion == Fuse

SpecFusion == InitFusion /\ [][NextFusion]_vars

-----------------------------------------------------------------------------
(* Two threads on one HybridRetriever: one inside _rebuild_bm25_index (from  *)
(* refresh_index), one inside retrieve.  The class takes no lock, so every  *)
(* attribute store of the rebuild and every attribute load of the reader is *)
(* a step of its own.  The reader is followed through the lines that load   *)
(* the snapshot (91-121); its loop is taken with one load of doc_ids and    *)
(* one of id_to_metadata, and a rebuild it starts itself is taken whole.    *)

\* the collection now, and the collection the current index was built from
ConcScenarios ==
    { [now |-> Indexed(<<TurnOther, TurnHuge>>), before |-> Indexed(<<TurnOther>>)],
      [now |-> Indexed(<<TurnHuge, TurnShort>>), before |-> Indexed(<<TurnHuge>>)],
      [now |-> <<>>, before |-> Indexed(<<TurnOther>>)] }

NotRead == <<"<not read>">>

ReaderAt(pc, index, ids, metadata, fail, bm25_results) ==
    [pc |-> pc, index |-> index, ids |-> ids, metadata |-> metadata,
     failure |-> fail, bm25_results |-> bm25_results]

WriterAt(pc, all_docs) == [pc |-> pc, all_docs |-> all_docs]

InitConc ==
    /\ enabled = TRUE
    /\ \E sc \in ConcScenarios :
          LET snap == Rebuilt(GetAll(sc.before))
          IN /\ store = sc.now
             /\ clock = 2
             /\ bm25_index = snap.bm25_index
             /\ doc_ids = snap.doc_ids
             /\ id_to_doc = snap.id_to_doc
             /\ id_to_metadata = snap.id_to_metadata
             /\ built_from = GetAll(sc.before)
    /\ \E q \in Queries, c \in Convs :
          lastOp = Op("retrieve", [query |-> q, conversation_id |-> c], FALSE)
    /\ storeCalls = <<>>
    /\ raised = FALSE
    /\ failure = "none"
    /\ trace = NoTrace
    /\ results = <<>>
    /\ included = <<>>
    /\ context = EmptyString
    /\ writer = WriterAt("get", NoDocs)
    /\ reader = ReaderAt("ensure", NotRead, NotRead, NotRead, "none", <<>>)
    /\ handler = NoHandler

WriterStep(from, to) ==
    /\ writer.pc = from
    /\ writer' = [writer EXCEPT !.pc = to]
    /\ UNCHANGED <<enabled, store, clock, observed, reader, handler>>

IsEmptyReply(all_docs) == all_docs.ids = <<>> \/ all_docs.documents = <<>>

\* hybrid_retrieval.py 30-38: collection.get(), which may raise
W_Get ==
    /\ writer.pc = "get"
    /\ \/ writer' = WriterAt(IF IsEmptyReply(GetAll(store))
                             THEN "clear_bm25_index" ELSE "doc_ids", GetAll(store))
       \/ writer' = WriterAt("done", NoDocs)
    /\ UNCHANGED <<program, observed, reader, handler>>

\* hybrid_retrieval.py 40: self.bm25_index = None
W_ClearBm25Index ==
    /\ WriterStep("clear_bm25_index", "clear_doc_ids")
    /\ bm25_index' = NoIndex
    /\ UNCHANGED <<doc_ids, id_to_doc, id_to_metadata>>

\* hybrid_retrieval.py 41: self.doc_ids = []
W_ClearDocIds ==
    /\ WriterStep("clear_doc_ids", "clear_id_to_doc")
    /\ doc_ids' = <<>>
    /\ UNCHANGED <<bm25_index, id_to_doc, id_to_metadata>>

\* hybrid_retrieval.py 42: self.id_to_doc = {}
W_ClearIdToDoc ==
    /\ WriterStep("clear_id_to_doc", "clear_id_to_metadata")
    /\ id_to_doc' = <<>>
    /\ UNCHANGED <<bm25_index, doc_ids, id_to_metadata>>

\* hybrid_retrieval.py 43-44: self.id_to_metadata = {}; return
W_ClearIdToMetadata ==
    /\ WriterStep("clear_id_to_metadata", "done")
    /\ id_to_metadata' = <<>>
    /\ UNCHANGED <<bm25_index, doc_ids, id_to_doc>>

\* hybrid_retrieval.py 46: self.doc_ids = ids
W_DocIds ==
    /\ WriterStep("doc_ids", "id_to_doc")
    /\ doc_ids' = Rebuilt(writer.all_docs).doc_ids
    /\ UNCHANGED <<bm25_index, id_to_doc, id_to_metadata>>

\* hybrid_retrieval.py 47-49: self.id_to_doc = {...}
W_IdToDoc ==
    /\ WriterStep("id_to_doc", "id_to_metadata")
    /\ id_to_doc' = Rebuilt(writer.all_docs).id_to_doc
    /\ UNCHANGED <<bm25_index, doc_ids, id_to_metadata>>

\* hybrid_retrieval.py 50-52: self.id_to_metadata = {...}
W_IdToMetadata ==
    /\ WriterStep("id_to_metadata", "bm25_index")
    /\ id_to_metadata' = Rebuilt(writer.all_docs).id_to_metadata
    /\ UNCHANGED <<bm25_index, doc_ids, id_to_doc>>

\* hybrid_retrieval.py 54-55: self.bm25_index = BM25Okapi(tokenized)
W_Bm25Index ==
    /\ WriterStep("bm25_index", "done")
    /\ bm25_index' = Rebuilt(writer.all_docs).bm25_index
    /\ UNCHANGED <<doc_ids, id_to_doc, id_to_metadata>>

ReaderStep(from) ==
    /\ reader.pc = from
    /\ UNCHANGED <<enabled, store, clock, observed, writer, handler>>

\* hybrid_retrieval.py 91 (68-70): _ensure_index
R_Ensure ==
    /\ ReaderStep("ensure")
    /\ reader' = [reader EXCEPT !.pc = "check"]
    /\ IF NeedsBuild
       THEN Install(Rebuilt(GetAll(store)))
       ELSE UNCHANGED snapshot

\* hybrid_retrieval.py 94-96: return [] on an empty index
R_Check ==
    /\ ReaderStep("check")
    /\ reader' = [reader EXCEPT
                     !.pc = IF doc_ids = <<>> \/ bm25_index = NoIndex
                            THEN "done" ELSE "get_scores"]
    /\ UNCHANGED snapshot

\* hybrid_retrieval.py 104: self.bm25_index.get_scores; None has no such
\* attribute
R_GetScores ==
    /\ ReaderStep("get_scores")
    /\ reader' = IF bm25_index = NoIndex
                 THEN [reader EXCEPT !.pc = "done", !.index = bm25_index,
                                     !.failure = "attribute"]
                 ELSE [reader EXCEPT !.pc = "doc_ids", !.index = bm25_index]
    /\ UNCHANGED snapshot

\* hybrid_retrieval.py 110: self.doc_ids[idx]
R_DocIds ==
    /\ ReaderStep("doc_ids")
    /\ reader' = [reader EXCEPT !.pc = "id_to_metadata", !.ids = doc_ids]
    /\ UNCHANGED snapshot

\* hybrid_retrieval.py 116: self.id_to_metadata.get(doc_id, {})
R_IdToMetadata ==
    /\ ReaderStep("id_to_metadata")
    /\ reader' = [reader EXCEPT !.pc = "lexical", !.metadata = id_to_metadata]
    /\ UNCHANGED snapshot

\* hybrid_retrieval.py 104-121 over the values the reader loaded: a position
\* of the old corpus past the end of a shorter doc_ids is an IndexError
R_Lexical ==
    /\ ReaderStep("lexical")
    /\ UNCHANGED snapshot
    /\ LET used == [bm25_index |-> reader.index, doc_ids |-> reader.ids,
                    id_to_doc |-> id_to_doc, id_to_metadata |-> reader.metadata]
           a == lastOp.args
       IN IF Min(TOP_K * 2, Len(reader.index.corpus)) > 0
             /\ Len(reader.ids) < Len(reader.index.corpus)
          THEN reader' = [reader EXCEPT !.pc = "done", !.failure = "index"]
          ELSE \E sc \in GetScores(reader.index, Tokenize(a.query)) :
                 \E top \in ArgsortDesc(sc, TOP_K * 2) :
                    reader' = [reader EXCEPT
                                  !.pc = "done",
                                  !.bm25_results =
                                      BM25Results(used, sc, top, a.conversation_id)]

NextConc ==
    \/ W_Get
    \/ W_ClearBm25Index
    \/ W_ClearDocIds
    \/ W_ClearIdToDoc
    \/ W_ClearIdToMetadata
    \/ W_DocIds
    \/ W_IdToDoc
    \/ W_IdToMetadata
    \/ W_Bm25Index
    \/ R_Ensure
    \/ R_Check
    \/ R_GetScores
    \/ R_DocIds
    \/ R_IdToMetadata
    \/ R_Lexical

SpecConc == InitConc /\ [][NextConc]_vars

-----------------------------------------------------------------------------
(* Document identifiers on their own: the two f-strings of index_session    *)
(* over conversation ids, turn indexes, ordinals and model ids drawn from   *)
(* bounded sets.  Both parameters are plain str; nothing escapes a ":".     *)

MaxTurn == 2         \* largest turn_index

IdConvs ==
    { <<"c1">>,
      <<"c1", ":", "turn", ":", "1", ":", "opinion", ":", "0", ":", "m1">> }

IdModels ==
    { <<"m1">>, <<"m2">>,
      <<"m1", ":", "turn", ":", "2", ":", "opinion", ":", "0", ":", "m2">> }

\* what one document of a call is built from; a synthesis has no ordinal
DocKeys ==
    [conversation_id : IdConvs, turn_index : 0..MaxTurn, stage : {"opinion"},
     idx : {0, 1}, model : IdModels]
    \cup
    [conversation_id : IdConvs, turn_index : 0..MaxTurn, stage : {"synthesis"},
     idx : {0}, model : IdModels]

\* rag.py 105 and 125
DocId(k) ==
    IF k.stage = "opinion"
    THEN OpinionId(k.conversation_id, k.turn_index, k.idx, k.model)
    ELSE SynthesisId(k.conversation_id, k.turn_index, k.model)

InitIds ==
    /\ enabled = TRUE
    /\ store = <<>>
    /\ clock = 0
    /\ bm25_index = NoIndex
    /\ doc_ids = <<>>
    /\ id_to_doc = <<>>
    /\ id_to_metadata = <<>>
    /\ built_from = NoDocs
    /\ \E k1 \in DocKeys, k2 \in DocKeys :
          lastOp = Op("doc_id", <<k1, k2>>, FALSE)
    /\ storeCalls = <<>>
    /\ raised = FALSE
    /\ failure = "none"
    /\ trace = NoTrace
    /\ results = <<>>
    /\ included = <<>>
    /\ context = EmptyString
    /\ writer = Parked
    /\ reader = Parked
    /\ handler = NoHandler

\* build the identifiers of the two documents
BuildIds ==
    /\ lastOp.name = "doc_id"
    /\ results = <<>>
    /\ results' = <<DocId(lastOp.args[1]), DocId(lastOp.args[2])>>
    /\ UNCHANGED <<program, lastOp, storeCalls, raised, failure, built_from,
                   trace, included, context, threads>>

NextIds == BuildIds

SpecIds == InitIds /\ [][NextIds]_vars

-----------------------------------------------------------------------------
(* One index_session call on its own: the call over every list of up to     *)
(* MaxOpinions opinions, on an empty collection or on one that already      *)
(* holds the turn.                                                          *)

MaxOpinions == 3     \* opinions of one call

RECURSIVE SeqsUpTo(_, _)
\* the sequences over S of length at most n
SeqsUpTo(S, n) ==
    IF n = 0 THEN {<<>>}
    ELSE LET shorter == SeqsUpTo(S, n - 1)
         IN shorter \cup {Append(q, x) : q \in shorter, x \in S}

\* stage1_results of any length, the same model possibly answering twice
OpinionLists ==
    SeqsUpTo({Opinion(Council[1], RespShort), Opinion(Council[2], RespShort)},
             MaxOpinions)

TurnArgs ==
    [conversation_id : {<<"c1">>}, turn_index : {0, 1}, user_question : {Question},
     stage1_results : OpinionLists, stage3_result : Stage3Inputs,
     topics : {TopicsInput}, quality_metrics : {QualityInput}]

InitIndex ==
    /\ enabled \in BOOLEAN
    /\ \E calls \in {<<>>, <<TurnSmall>>} :
          /\ store = Indexed(calls)
          /\ clock = Len(calls)
    /\ bm25_index = NoIndex
    /\ doc_ids = <<>>
    /\ id_to_doc = <<>>
    /\ id_to_metadata = <<>>
    /\ built_from = NoDocs
    /\ lastOp = Op("init", <<>>, FALSE)
    /\ storeCalls = <<>>
    /\ raised = FALSE
    /\ failure = "none"
    /\ trace = NoTrace
    /\ results = <<>>
    /\ included = <<>>
    /\ context = EmptyString
    /\ writer = Parked
    /\ reader = Parked
    /\ handler = NoHandler

\* CouncilRAG.index_session, called once
IndexTurn(a) ==
    /\ lastOp.name = "init"
    /\ lastOp' = Op("index_session", a, FALSE)
    /\ UNCHANGED <<enabled, snapshot, built_from, trace, results, included,
                   context, threads>>
    /\ IF IndexDisabled
       THEN /\ storeCalls' = <<>>
            /\ raised' = FALSE
            /\ failure' = "none"
            /\ UNCHANGED <<store, clock>>
       ELSE LET docs == SessionDocs(a, clock)
            IN /\ clock' = clock + 1
               /\ IF docs = <<>>
                  THEN /\ storeCalls' = <<>>
                       /\ raised' = FALSE
                       /\ failure' = "none"
                       /\ UNCHANGED store
                  ELSE /\ storeCalls' = <<"upsert">>
                       /\ \/ /\ store' = Upsert(store, docs)
                             /\ raised' = FALSE
                             /\ failure' = "none"
                          \/ /\ UNCHANGED store       \* the upsert raises
                             /\ raised' = TRUE
                             /\ failure' = "upsert"

NextIndex == \E a \in TurnArgs : IndexTurn(a)

SpecIndex == InitIndex /\ [][NextIndex]_vars

-----------------------------------------------------------------------------
(* Two index_session calls at once on one collection, both writing the same  *)
(* turn.  Each call reads the clock and builds its three lists (rag.py       *)
(* 87-137), then hands them to one collection.upsert (147-151).  The         *)
(* collection writes a batch one record at a time, so the records of the     *)
(* two batches may interleave; a record carries its text and its metadata.   *)
(* The two callers are writer[1] and writer[2].                              *)

Callers == {1, 2}

\* the same turn with another topic list and no quality metrics
TurnRetold ==
    [conversation_id |-> <<"c1">>, turn_index |-> 0, user_question |-> Question,
     stage1_results |-> ChangedOpinions,
     stage3_result |-> [model |-> Chair, response |-> RespHuge],
     topics |-> <<"history">>, quality_metrics |-> NoQuality]

ConcurrentTurns == {TurnSmall, TurnChanged, TurnRetold}

CallerAt(pc, args, docs, next) == [pc |-> pc, args |-> args, docs |-> docs, next |-> next]

InitUpsert ==
    /\ enabled = TRUE
    /\ \E calls \in {<<>>, <<TurnSmall>>} :
          /\ store = Indexed(calls)
          /\ clock = Len(calls)
    /\ bm25_index = NoIndex
    /\ doc_ids = <<>>
    /\ id_to_doc = <<>>
    /\ id_to_metadata = <<>>
    /\ built_from = NoDocs
    /\ lastOp = Op("index_session", <<>>, FALSE)
    /\ storeCalls = <<>>
    /\ raised = FALSE
    /\ failure = "none"
    /\ trace = NoTrace
    /\ results = <<>>
    /\ included = <<>>
    /\ context = EmptyString
    /\ \E a1 \in ConcurrentTurns, a2 \in ConcurrentTurns :
          writer = [t \in Callers |->
                      CallerAt("build", IF t = 1 THEN a1 ELSE a2, <<>>, 1)]
    /\ reader = Parked
    /\ handler = NoHandler

\* rag.py 87-140: read the clock, build ids, documents and metadatas
I_Build(t) ==
    /\ writer[t].pc = "build"
    /\ LET docs == SessionDocs(writer[t].args, clock)
       IN writer' = [writer EXCEPT ![t] =
                        CallerAt(IF docs = <<>> THEN "done" ELSE "upsert",
                                 writer[t].args, docs, 1)]
    /\ clock' = clock + 1
    /\ UNCHANGED <<enabled, store, snapshot, observed, reader, handler>>

\* rag.py 147-151: the next record of the batch reaches the collection
I_UpsertRecord(t) ==
    /\ writer[t].pc = "upsert"
    /\ store' = UpsertOne(store, writer[t].docs[writer[t].next])
    /\ writer' = [writer EXCEPT ![t].next = @ + 1,
                                ![t].pc = IF writer[t].next = Len(writer[t].docs)
                                          THEN "done" ELSE "upsert"]
    /\ UNCHANGED <<enabled, clock, snapshot, observed, reader, handler>>

\* rag.py 147-151: collection.upsert raises, before or between records
I_UpsertRaises(t) ==
    /\ writer[t].pc = "upsert"
    /\ writer' = [writer EXCEPT ![t].pc = "raised"]
    /\ UNCHANGED <<program, observed, reader, handler>>

NextUpsert ==
    \E t \in Callers :
        \/ I_Build(t)
        \/ I_UpsertRecord(t)
        \/ I_UpsertRaises(t)

SpecUpsert == InitUpsert /\ [][NextUpsert]_vars

-----------------------------------------------------------------------------
(* The message handlers of main.py: send_message and the event generator of  *)
(* send_message_stream, one request at a time.  A handler is a straight run  *)
(* of steps chosen by the mode and by whether the message is the first one:  *)
(* calls that may raise, events yielded to the client, and the assignment    *)
(* and the uses of the local turn_index.  The calls into rag_system act on   *)
(* the collection and on the lexical snapshot.  The storage and council      *)
(* modules are outside the source tree: a conversation is the list of its    *)
(* messages, and a council call either returns or raises.                    *)

Step(op, name, line) == [op |-> op, name |-> name, line |-> line]

\* main.py 183-185 and 335-338: only for the first message of a conversation
TitleSteps(kind, first) ==
    IF ~first THEN <<>>
    ELSE IF kind = "send_message"
    THEN << Step("call", "generate_conversation_title", 184),
            Step("call", "storage.update_conversation_title", 185) >>
    ELSE << Step("call", "generate_conversation_title", 336),
            Step("call", "storage.update_conversation_title", 337),
            Step("yield", "title_complete", 338) >>

\* a variant that yields the complete event before the cost is stored
CostSteps_CompleteFirst ==
    << Step("yield", "complete", 455),
       Step("call", "calculate_cost", 434),
       Step("call", "storage.update_conversation_cost", 448),
       Step("call", "storage.get_conversation", 451),
       Step("return", "event_generator", 455) >>

\* main.py 428-455: the cost of the turn and the last event
CostSteps ==
    << Step("call", "calculate_cost", 434),
       Step("call", "storage.update_conversation_cost", 448),
       Step("call", "storage.get_conversation", 451),
       Step("yield", "complete", 455),
       Step("return", "event_generator", 455) >>

\* the steps of a handler after it has found the conversation and the mode
HandlerSteps(kind, mode, first) ==
    IF kind = "send_message"
    THEN << Step("call", "storage.add_user_message", 180) >>
         \o TitleSteps(kind, first)
         \o IF mode = "council"
            THEN << Step("call", "run_full_council", 194),
                    Step("call", "storage.add_assistant_message", 201),
                    Step("use", "turn_index", 209),
                    Step("call", "extract_topics", 214),
                    Step("call", "calculate_quality_metrics", 217),
                    Step("call", "storage.get_conversation", 223),
                    Step("assign", "turn_index", 224),
                    Step("call", "rag_system.index_session", 226),
                    Step("call", "rag_system.refresh_hybrid_index", 238),
                    Step("return", "send_message", 241) >>
            ELSE << Step("call", "storage.get_conversation", 251),
                    Step("call", "rewrite_query", 255),
                    Step("call", "rag_system.retrieve", 261),
                    Step("call", "chat_with_chairman", 264),
                    Step("call", "storage.add_chat_message", 272),
                    Step("return", "send_message", 274) >>
    ELSE << Step("call", "storage.add_user_message", 301) >>
         \o (IF mode = "council"
             THEN << Step("yield", "stage1_start", 315),
                     Step("call", "stage1_collect_responses", 316),
                     Step("yield", "stage1_complete", 317),
                     Step("yield", "stage2_start", 320),
                     Step("call", "stage2_collect_rankings", 321),
                     Step("call", "calculate_aggregate_rankings", 322),
                     Step("yield", "stage2_complete", 323),
                     Step("call", "calculate_quality_metrics", 327),
                     Step("yield", "stage3_start", 330),
                     Step("call", "stage3_synthesize_final", 331),
                     Step("yield", "stage3_complete", 332) >>
                  \o TitleSteps(kind, first)
                  \o << Step("call", "storage.add_assistant_message", 341),
                        Step("call", "storage.get_conversation", 349),
                        Step("assign", "turn_index", 350),
                        Step("use", "turn_index", 353),
                        Step("call", "extract_topics", 358),
                        Step("call", "rag_system.index_session", 365),
                        Step("call", "rag_system.refresh_hybrid_index", 378) >>
             ELSE << Step("yield", "chat_start", 383),
                     Step("call", "storage.get_conversation", 388),
                     Step("call", "rewrite_query", 394),
                     Step("call", "rag_system.retrieve", 401),
                     Step("try", "chat_with_chairman", 407),
                     Step("call", "storage.add_chat_message", 423),
                     Step("yield", "chat_response", 425) >>)
         \o CostSteps

\* main.py 22-28: the number of assistant messages that carry a stage3
get_turn_index(messages) ==
    Cardinality({i \in 1..Len(messages) : messages[i] = "council"})

\* storage.add_user_message, add_assistant_message, add_chat_message
AddMessage(messages, name) ==
    IF name = "storage.add_user_message" THEN Append(messages, "user")
    ELSE IF name = "storage.add_assistant_message" THEN Append(messages, "council")
    ELSE IF name = "storage.add_chat_message" THEN Append(messages, "chat")
    ELSE messages

\* the council's answers of a turn, and the query of a chat message
CouncilTurn(turn_index) ==
    Args(<<"c1">>, turn_index, ShortOpinions, [model |-> Chair, response |-> RespShort])

Requests ==
    [kind : {"send_message", "stream"}, mode : {"auto", "council", "chat"},
     messages : {<<>>, <<"user", "council">>}, found : BOOLEAN]

\* main.py 173-177 and 292-296
ModeOf(request) ==
    IF request.mode = "auto"
    THEN (IF Len(request.messages) = 0 THEN "council" ELSE "chat")
    ELSE request.mode

\* a conversation with a council turn was indexed and the index refreshed
InitHandler ==
    /\ enabled \in BOOLEAN
    /\ lastOp = Op("init", <<>>, FALSE)
    /\ storeCalls = <<>>
    /\ raised = FALSE
    /\ failure = "none"
    /\ trace = NoTrace
    /\ results = <<>>
    /\ included = <<>>
    /\ context = EmptyString
    /\ writer = Parked
    /\ reader = Parked
    /\ \E r \in Requests :
          LET before == IF enabled /\ r.messages # <<>>
                        THEN Indexed(<<CouncilTurn(0)>>) ELSE <<>>
              snap == Rebuilt(GetAll(before))
          IN /\ store = before
             /\ clock = IF before = <<>> THEN 0 ELSE 1
             /\ bm25_index = snap.bm25_index
             /\ doc_ids = snap.doc_ids
             /\ id_to_doc = snap.id_to_doc
             /\ id_to_metadata = snap.id_to_metadata
             /\ built_from = GetAll(before)
             /\ handler = [status |-> "start", request |-> r]

Running == handler.status = "running"

Here == HandlerSteps(handler.kind, handler.mode, handler.first)[handler.pc]

\* a call made (and whether it returned) or an event yielded
Entry(kind, name, turn, ok) == [kind |-> kind, name |-> name, turn |-> turn, ok |-> ok]

\* main.py 168-177 and 287-296: 404 when the conversation is missing
H_Start ==
    /\ handler.status = "start"
    /\ LET r == handler.request
       IN handler' =
            IF ~r.found
            THEN [status |-> "raised", pc |-> 1, kind |-> r.kind, mode |-> ModeOf(r),
                  first |-> Len(r.messages) = 0, messages |-> r.messages,
                  locals |-> {}, turn_index |-> 0, log |-> <<>>,
                  error |-> "HTTPException"]
            ELSE [status |-> "running", pc |-> 1, kind |-> r.kind, mode |-> ModeOf(r),
                  first |-> Len(r.messages) = 0, messages |-> r.messages,
                  locals |-> {}, turn_index |-> 0, log |-> <<>>,
                  error |-> "none"]
    /\ UNCHANGED <<program, observed, writer, reader>>

\* an exception leaves send_message; the generator catches it (main.py
\* 457-459) and yields an error event
Failed(h, error) ==
    IF h.kind = "stream"
    THEN [h EXCEPT !.status = "returned", !.error = error,
                   !.log = Append(@, Entry("event", "error", 0, TRUE))]
    ELSE [h EXCEPT !.status = "raised", !.error = error]

\* what a call into rag_system does to the collection and to the snapshot
RagEffect(name) ==
    IF name = "rag_system.index_session" /\ ~IndexDisabled
    THEN /\ store' = Upsert(store, SessionDocs(CouncilTurn(handler.turn_index), clock))
         /\ clock' = clock + 1
         /\ UNCHANGED <<enabled, snapshot, built_from>>
    ELSE IF name = "rag_system.refresh_hybrid_index" /\ RefreshEnabled
    THEN /\ Install(Rebuilt(GetAll(store)))
         /\ built_from' = GetAll(store)
         /\ UNCHANGED <<enabled, store, clock>>
    ELSE IF name = "rag_system.retrieve" /\ ~RetrieveDisabled
    THEN /\ \E q \in Queries :
              \E h \in HybridRetrieve(q, <<"c1">>, TOP_K, DEFAULT_WEIGHT, DEFAULT_WEIGHT) :
                 /\ Install(RagOutcome(h).snap)
                 /\ built_from' = RagOutcome(h).built
         /\ UNCHANGED <<enabled, store, clock>>
    ELSE UNCHANGED <<program, built_from>>

\* a call returns
H_Call ==
    /\ Running
    /\ Here.op \in {"call", "try"}
    /\ handler' = [handler EXCEPT
                      !.pc = @ + 1,
                      !.messages = AddMessage(@, Here.name),
                      !.log = Append(@, Entry("call", Here.name, handler.turn_index, TRUE))]
    /\ RagEffect(Here.name)
    /\ UNCHANGED <<lastOp, storeCalls, raised, failure, trace, results, included,
                   context, writer, reader>>

\* a call raises; CouncilRAG.retrieve catches what its body raises (rag.py
\* 230-232), and the generator goes on after a failed chairman call (main.py
\* 414-419)
H_CallRaises ==
    /\ Running
    /\ Here.op \in {"call", "try"}
    /\ Here.name # "rag_system.retrieve"
    /\ LET called == [handler EXCEPT
                        !.log = Append(@, Entry("call", Here.name, handler.turn_index, FALSE))]
       IN handler' = IF Here.op = "try"
                     THEN [called EXCEPT !.pc = @ + 1]
                     ELSE Failed(called, "Exception")
    /\ UNCHANGED <<program, observed, writer, reader>>

\* an event reaches the client
H_Yield ==
    /\ Running
    /\ Here.op = "yield"
    /\ handler' = [handler EXCEPT !.pc = @ + 1,
                                  !.log = Append(@, Entry("event", Here.name, 0, TRUE))]
    /\ UNCHANGED <<program, observed, writer, reader>>

\* main.py 224 and 350: turn_index = get_turn_index(updated_conversation) - 1
H_Assign ==
    /\ Running
    /\ Here.op = "assign"
    /\ handler' = [handler EXCEPT !.pc = @ + 1,
                                  !.locals = @ \cup {Here.name},
                                  !.turn_index = get_turn_index(handler.messages) - 1]
    /\ UNCHANGED <<program, observed, writer, reader>>

\* main.py 209 and 353: logger.info(..., turn_index, conversation_id); a local
\* that has no value yet raises UnboundLocalError
H_Use ==
    /\ Running
    /\ Here.op = "use"
    /\ handler' = IF Here.name \in handler.locals
                  THEN [handler EXCEPT !.pc = @ + 1]
                  ELSE Failed(handler, "UnboundLocalError")
    /\ UNCHANGED <<program, observed, writer, reader>>

H_Return ==
    /\ Running
    /\ Here.op = "return"
    /\ handler' = [handler EXCEPT !.status = "returned"]
    /\ UNCHANGED <<program, observed, writer, reader>>

NextHandler ==
    \/ H_Start
    \/ H_Call
    \/ H_CallRaises
    \/ H_Yield
    \/ H_Assign
    \/ H_Use
    \/ H_Return

SpecHandler == InitHandler /\ [][NextHandler]_vars

-----------------------------------------------------------------------------
(* calculate_cost of main.py on its own, over usage mappings and model ids   *)
(* drawn from bounded sets.  Prices are in thousandths of a dollar per       *)
(* million tokens and a cost is in billionths of a dollar, so that           *)
(* tokens / 1,000,000 * price is the integer tokens * price.                 *)

\* config.py 45-86: the registry, in its order; name, capabilities and type
\* are not read by calculate_cost
AVAILABLE_MODELS ==
    << 
[id |-> "openai/gpt-5.1", pricing |-> [input |-> 3000, output |-> 15000]],
       [id |-> "openai/gpt-5-mini", pricing |-> [input |-> 400, output |-> 1600]],
       [id |-> "openai/gpt-4.1-mini", pricing |-> [input |-> 200, output |-> 800]],
       [id |-> "openai/gpt-4o-mini", pricing |-> [input |-> 150, output |-> 600]],
       [id |-> "google/gemini-3-pro-preview", pricing |-> [input |-> 2000, output |-> 12000]],
       [id |-> "google/gemini-2.5-pro", pricing |-> [input |-> 1250, output |-> 5000]],
       [id |-> "google/gemini-2.5-flash", pricing |-> [input |-> 300, output |-> 2500]],
       [id |-> "google/gemini-2.5-flash-lite", pricing |-> [input |-> 100, output |-> 400]],
       [id |-> "google/gemini-2.0-flash-001", pricing |-> [input |-> 100, output |-> 400]],
       [id |-> "google/gemini-2.0-flash-lite", pricing |-> [input |-> 75, output |-> 300]],
       [id |-> "x-ai/grok-code-fast-1", pricing |-> [input |-> 200, output |-> 1500]],
       [id |-> "x-ai/grok-4.1-fast:free", pricing |-> [input |-> 0, output |-> 0]],
       [id |-> "x-ai/grok-4-fast", pricing |-> [input |-> 200, output |-> 500]],
       [id |-> "x-ai/grok-4", pricing |-> [input |-> 3000, output |-> 15000]],
       [id |-> "anthropic/claude-sonnet-4.5", pricing |-> [input |-> 3000, output |-> 15000]],
       [id |-> "anthropic/claude-sonnet-4.0", pricing |-> [input |-> 3000, output |-> 15000]],
       [id |-> "deepseek/deepseek-chat-v3.1", pricing |-> [input |-> 200, output |-> 800]],
       [id |-> "deepseek/deepseek-v3.2-exp", pricing |-> [input |-> 216, output |-> 328]],
       [id |-> "moonshotai/kimi-k2", pricing |-> [input |-> 456, output |-> 1840]],
       [id |-> "moonshotai/kimi-k2-thinking", pricing |-> [input |-> 450, output |-> 2350]],
       [id |-> "minimax/minimax-m2", pricing |-> [input |-> 80, output |-> 600]],
       [id |-> "zhipu/glm-4.6", pricing |-> [input |-> 200, output |-> 800]],
       [id |-> "qwen/qwen3-coder-30b-a3b-instruct", pricing |-> [input |-> 240, output |-> 720]] >>

\* a variant that prices prompt tokens at the output price and back
calculate_cost_Swapped(usage, model_id) ==
    IF usage = <<>> THEN 0
    ELSE LET found == {i \in 1..Len(AVAILABLE_MODELS) : AVAILABLE_MODELS[i].id = model_id}
         IN IF found = {} THEN 0
            ELSE LET model_config == AVAILABLE_MODELS[CHOOSE i \in found : \A j \in found : i <= j]
                     pricing == Get(model_config, "pricing", <<>>)
                 IN Get(usage, "prompt_tokens", 0) * Get(pricing, "output", 0)
                    + Get(usage, "completion_tokens", 0) * Get(pricing, "input", 0)

\* main.py 30-48; next(...) takes the first registry entry with that id
calculate_cost(usage, model_id) ==
    IF usage = <<>> THEN 0
    ELSE LET found == {i \in 1..Len(AVAILABLE_MODELS) : AVAILABLE_MODELS[i].id = model_id}
         IN IF found = {} THEN 0
            ELSE LET model_config == AVAILABLE_MODELS[CHOOSE i \in found : \A j \in found : i <= j]
                     pricing == Get(model_config, "pricing", <<>>)
                     input_price == Get(pricing, "input", 0)
                     output_price == Get(pricing, "output", 0)
                     prompt_tokens == Get(usage, "prompt_tokens", 0)
                     completion_tokens == Get(usage, "completion_tokens", 0)
                 IN prompt_tokens * input_price + completion_tokens * output_price

\* usage mappings with any of the two counts missing; the empty mapping is <<>>
Usages ==
    UNION { [keys -> {0, 1, 1000, 50000}] :
              keys \in (SUBSET {"prompt_tokens", "completion_tokens"}) \ {{}} }
    \cup {<<>>}

InitCost ==
    /\ enabled = TRUE
    /\ store = <<>>
    /\ clock = 0
    /\ bm25_index = NoIndex
    /\ doc_ids = <<>>
    /\ id_to_doc = <<>>
    /\ id_to_metadata = <<>>
    /\ built_from = NoDocs
    /\ \E usage \in Usages,
          model_id \in {AVAILABLE_MODELS[i].id : i \in 1..Len(AVAILABLE_MODELS)}
                       \cup {"unknown-model"} :
          lastOp = Op("calculate_cost", [usage |-> usage, model_id |-> model_id], FALSE)
    /\ storeCalls = <<>>
    /\ raised = FALSE
    /\ failure = "none"
    /\ trace = NoTrace
    /\ results = <<>>
    /\ included = <<>>
    /\ context = EmptyString
    /\ writer = Parked
    /\ reader = Parked
    /\ handler = NoHandler

\* one call; the return value is kept in results
CalculateCost ==
    /\ lastOp.name = "calculate_cost"
    /\ results = <<>>
    /\ results' = <<calculate_cost(lastOp.args.usage, lastOp.args.model_id)>>
    /\ UNCHANGED <<program, lastOp, storeCalls, raised, failure, built_from,
                   trace, included, context, threads>>

SpecCost == InitCost /\ [][CalculateCost]_vars

-----------------------------------------------------------------------------
(* get_analytics of analytics.py on its own, over the parsed content of the  *)
(* data directory.  A file is its name, whether json.load reads it, and its  *)
(* messages; a message is a mapping that may lack stage2 or metadata.  The   *)
(* reported average_rank is in hundredths and win_rate in tenths, which is   *)
(* what round(x, 2) and round(x, 1) keep.                                    *)

MaxJudges == 2       \* ranking entries in the stage2 of the varied message

NoModel == "<None>"

IsMapped(e) == e.model # NoModel /\ e.model # ""

\* a variant that counts positions from 0
RankingAppearances_ZeroBased(parsed, label_to_model) ==
    SelectSeq([k \in 1..Len(parsed) |->
                  [model |-> Get(label_to_model, parsed[k], NoModel), rank |-> k - 1]],
              IsMapped)

\* analytics.py 46-52: the (model, rank) pairs one parsed ranking adds
RankingAppearances(parsed, label_to_model) ==
    SelectSeq([k \in 1..Len(parsed) |->
                  [model |-> Get(label_to_model, parsed[k], NoModel), rank |-> k]],
              IsMapped)

RECURSIVE ConcatAll(_)
ConcatAll(seqs) == IF seqs = <<>> THEN <<>> ELSE Head(seqs) \o ConcatAll(Tail(seqs))

\* analytics.py 29-52: one message
MessageAppearances(msg) ==
    LET stage2 == Get(msg, "stage2", <<>>)
        label_to_model == Get(Get(msg, "metadata", <<>>), "label_to_model", <<>>)
    IN IF stage2 = <<>> \/ DOMAIN label_to_model = {}
       THEN <<>>
       ELSE ConcatAll([j \in 1..Len(stage2) |->
                RankingAppearances(Get(stage2[j], "parsed_ranking", <<>>), label_to_model)])

\* analytics.py 19-58: one directory entry; a file json.load cannot read is
\* logged and skipped
FileAppearances(file) ==
    IF ~file.json \/ ~file.readable THEN <<>>
    ELSE ConcatAll([i \in 1..Len(file.messages) |-> MessageAppearances(file.messages[i])])

RECURSIVE SumOf(_, _)
\* the sum of f over the positions in S
SumOf(f, S) == IF S = {} THEN 0 ELSE LET k == CHOOSE x \in S : TRUE IN f[k] + SumOf(f, S \ {k})

\* Python's round of n/d to an integer: to nearest, a tie to the even one
RoundHalfEven(n, d) ==
    LET q == n \div d
        r == n % d
    IN IF 2 * r < d THEN q
       ELSE IF 2 * r > d THEN q + 1
       ELSE IF q % 2 = 0 THEN q ELSE q + 1

\* analytics.py 8-76; directory.exists is os.path.exists(DATA_DIR)
get_analytics(directory) ==
    IF ~directory.exists THEN <<>>
    ELSE LET apps == ConcatAll([i \in 1..Len(directory.files) |->
                                   FileAppearances(directory.files[i])])
             At(m) == {k \in 1..Len(apps) : apps[k].model = m}
             models == {apps[k].model : k \in 1..Len(apps)}
             ranks == [k \in 1..Len(apps) |-> apps[k].rank]
             Total(m) == SumOf(ranks, At(m))
             Wins(m) == Cardinality({k \in At(m) : apps[k].rank = 1})
             First(m) == CHOOSE k \in At(m) : \A j \in At(m) : k <= j
             Row(m) == [model |-> m,
                        average_rank |-> RoundHalfEven(Total(m) * 100, Cardinality(At(m))),
                        win_rate |-> RoundHalfEven(Wins(m) * 1000, Cardinality(At(m))),
                        evaluations |-> Cardinality(At(m))]
             order == CHOOSE p \in Perms(models) :
                         \A i, j \in 1..Len(p) :
                            i < j => \/ Row(p[i]).average_rank < Row(p[j]).average_rank
                                     \/ /\ Row(p[i]).average_rank = Row(p[j]).average_rank
                                        /\ First(p[i]) < First(p[j])
         IN [k \in 1..Len(order) |-> Row(order[k])]

Judge(parsed) == [model |-> "judge1", parsed_ranking |-> parsed]

ParsedRankings ==
    { <<>>, <<"Response A">>, <<"Response A", "Response B">>,
      <<"Response B", "Response A">>, <<"Response C", "Response B", "Response A">> }

LabelMaps ==
    { <<>>,
      [l \in {"Response A", "Response B"} |->
          IF l = "Response A" THEN "model_a" ELSE "model_b"],
      [l \in {"Response A", "Response B", "Response C"} |->
          IF l = "Response C" THEN "" ELSE "model_a"] }

\* the message that varies: up to MaxJudges rankings under a label mapping
VariedMessages ==
    { [stage2 |-> [j \in 1..Len(q) |-> Judge(q[j])],
       metadata |-> [label_to_model |-> l]] :
         q \in SeqsUpTo(ParsedRankings, MaxJudges), l \in LabelMaps }

File(json, readable, messages) == [json |-> json, readable |-> readable, messages |-> messages]

\* a second directory entry: a file of another type, a file that is not
\* JSON inside, a conversation of one ranked turn, a conversation with a
\* user message and a turn stored without its label mapping
OtherFiles ==
    LET ranked == [stage2 |-> <<Judge(<<"Response B", "Response A">>)>>,
                   metadata |-> [label_to_model |->
                       [l \in {"Response A", "Response B"} |->
                           IF l = "Response A" THEN "model_a" ELSE "model_c"]]]
        bare == [stage2 |-> <<Judge(<<"Response A">>)>>]
        user == [role |-> "user"]
    IN { File(FALSE, TRUE, <<ranked>>), File(TRUE, FALSE, <<ranked>>),
         File(TRUE, TRUE, <<ranked>>), File(TRUE, TRUE, <<user, bare>>) }

InitAnalytics ==
    /\ enabled = TRUE
    /\ store = <<>>
    /\ clock = 0
    /\ bm25_index = NoIndex
    /\ doc_ids = <<>>
    /\ id_to_doc = <<>>
    /\ id_to_metadata = <<>>
    /\ built_from = NoDocs
    /\ \E msg \in VariedMessages, other \in OtherFiles, exists \in BOOLEAN :
          lastOp = Op("get_analytics",
                      [exists |-> exists,
                       files |-> IF exists THEN <<File(TRUE, TRUE, <<msg>>), other>>
                                 ELSE <<>>], FALSE)
    /\ storeCalls = <<>>
    /\ raised = FALSE
    /\ failure = "none"
    /\ trace = NoTrace
    /\ results = <<>>
    /\ included = <<>>
    /\ context = EmptyString
    /\ writer = Parked
    /\ reader = Parked
    /\ handler = NoHandler

\* one call; results holds the "models" list and storeCalls marks the return
GetAnalytics ==
    /\ lastOp.name = "get_analytics"
    /\ storeCalls = <<>>
    /\ storeCalls' = <<"returned">>
    /\ results' = get_analytics(lastOp.args)
    /\ UNCHANGED <<program, lastOp, raised, failure, built_from, trace, included,
                   context, threads>>

SpecAnalytics == InitAnalytics /\ [][GetAnalytics]_vars

-----------------------------------------------------------------------------
(* Claims *)

RetrieveDone == lastOp.name = "retrieve"

Requested == lastOp.args.conversation_id

ConvOfStored(i) == Get(store[i].metadata, "conversation_id", NoneVal)

\* ids of the documents stored under another conversation than the requested
Foreign == {store[i].id : i \in {j \in 1..Len(store) : ConvOfStored(j) # Requested}}

ResultIds == {results[k].id : k \in 1..Len(results)}

\* a block of the context is the formatted form of stored document i
BlockOf(b, i) ==
    /\ CanFormat([metadata |-> store[i].metadata])
    /\ b = FormatChunk([metadata |-> store[i].metadata, text |-> store[i].document])

\* C1: conversation isolation.  After a retrieve for conversation B, no
\* document stored under another conversation is a lexical candidate, a
\* dense candidate, a fused result or a chunk of the context; every block
\* of the context is a document stored under B; and when nothing is stored
\* under B the context is the empty string.
C1_Isolation ==
    RetrieveDone =>
        /\ Foreign \cap DOMAIN trace.bm25_results = {}
        /\ Foreign \cap DOMAIN trace.dense_result_dict = {}
        /\ Foreign \cap Range(trace.sorted_ids) = {}
        /\ Foreign \cap ResultIds = {}
        /\ Foreign \cap Range(included) = {}
        /\ \A k \in 1..Len(Blocks(context)) :
              \E i \in 1..Len(store) :
                  /\ ConvOfStored(i) = Requested
                  /\ store[i].id = included[k]
                  /\ BlockOf(Blocks(context)[k], i)
        /\ (Foreign = IdsOf(store) => context = EmptyString)

\* C1 witness: a retrieve returned a non-empty context while the lexical
\* snapshot held a document of another conversation that matches the query
C1_Witness ==
    /\ RetrieveDone
    /\ context # EmptyString
    /\ \E d \in Foreign \cap Range(doc_ids) :
          Matches(Tokenize(id_to_doc[d]), Tokenize(lastOp.args.query))

\* C2: retrieve never propagates an error; with the engine disabled, or a
\* failed step (lazy rebuild, dense query, batched fetch, chunk formatting),
\* it returns the empty string.
C2_NeverRaises ==
    RetrieveDone =>
        /\ ~raised
        /\ (~enabled \/ failure # "none") => context = EmptyString

\* C2 witness: a retrieve whose chunk formatting failed
C2_Witness == RetrieveDone /\ failure = "format"

SameCallAgain ==
    /\ enabled
    /\ lastOp'.name = "index_session"
    /\ lastOp'.again
    /\ ~raised'

\* the stored documents with the timestamp field blanked
StripTime(st) == [i \in 1..Len(st) |-> [st[i] EXCEPT !.metadata.timestamp = 0]]

\* C6 as stated: a second index_session call with identical arguments leaves
\* the same identifiers with the same text and metadata.
C6_Original == [][SameCallAgain => store' = store]_vars

\* C6 amended: the second call leaves the same identifiers, without
\* duplicates, with the same text and the same metadata except the
\* timestamp field, which every rewritten document takes from the second call.
C6_IdempotentButTimestamp ==
    [][SameCallAgain =>
          /\ StripTime(store') = StripTime(store)
          /\ Cardinality(IdsOf(store')) = Len(store')
          /\ \A i \in 1..Len(store') :
                store'[i].id \in {SessionDocs(lastOp'.args, 0)[k].id :
                                     k \in 1..Len(SessionDocs(lastOp'.args, 0))}
                => store'[i].metadata.timestamp = clock]_vars

\* C6 witness: the same index_session call was made twice and wrote documents
C6_Witness ==
    /\ lastOp.name = "index_session"
    /\ lastOp.again
    /\ ~raised
    /\ storeCalls = <<"upsert">>

\* C7: once initialisation has failed, enabled stays False, every retrieve
\* returns the empty string without error, and index_session and
\* refresh_hybrid_index make no store call and change nothing.
C7_DisabledForLife ==
    [][~enabled =>
          /\ ~enabled'
          /\ storeCalls' = <<>>
          /\ ~raised'
          /\ context' = EmptyString
          /\ UNCHANGED <<store, bm25_index, doc_ids, id_to_doc, id_to_metadata>>]_vars

\* C7 witness: index_session was called with documents to write on a
\* disabled engine
C7_Witness ==
    /\ ~enabled
    /\ lastOp.name = "index_session"
    /\ lastOp.args.stage1_results # <<>>

\* C8: over an empty collection a rebuild raises nothing and leaves the
\* empty lexical state, and a retrieve returns no results and raises nothing.
C8_EmptyCollection ==
    (enabled /\ store = <<>> /\ failure = "none") =>
        /\ lastOp.name = "refresh_hybrid_index" =>
              (~raised /\ CurrentSnap = EmptySnap)
        /\ RetrieveDone =>
              (~raised /\ results = <<>> /\ context = EmptyString
               /\ CurrentSnap = EmptySnap)

\* C8 witness: a retrieve ran its lazy rebuild over the empty collection
C8_Witness ==
    /\ enabled
    /\ store = <<>>
    /\ RetrieveDone
    /\ failure = "none"
    /\ storeCalls = <<"get">>

\* C9: every identifier admitted by the lexical path is an identifier of the
\* collection reply the snapshot was built from, and the document that reply
\* holds for it shares a term with the query.
C9_NoPhantom ==
    (RetrieveDone /\ trace.ran) =>
        \A d \in DOMAIN trace.bm25_results :
            \E i \in 1..Len(built_from.ids) :
                /\ built_from.ids[i] = d
                /\ Matches(Tokenize(built_from.documents[i]),
                           Tokenize(lastOp.args.query))

\* C9 witness: a lexical candidate was admitted while the snapshot also held
\* a document that does not match the query
C9_Witness ==
    /\ RetrieveDone
    /\ trace.ran
    /\ DOMAIN trace.bm25_results # {}
    /\ \E i \in 1..Len(built_from.ids) :
          ~Matches(Tokenize(built_from.documents[i]), Tokenize(lastOp.args.query))

-----------------------------------------------------------------------------
\* the fused results whose score is not below the threshold, in result order
Survivors ==
    LET passes(r) == r.score.num * THRESHOLD.den >= THRESHOLD.num * r.score.den
    IN SelectSeq(results, passes)

RECURSIVE CumTokens(_, _)
\* the estimated tokens of the first n of a sequence of chunks
CumTokens(chunks, n) ==
    IF n = 0 THEN 0
    ELSE CumTokens(chunks, n - 1) + (WordCount(chunks[n].text) * 13) \div 10

Answered == RetrieveDone /\ failure = "none"

\* C4: token budget.  The context of a retrieve holds the longest prefix of
\* the threshold-surviving chunks, in fused order, whose estimated tokens
\* (int(words * 1.3) each) sum to at most 3000: the first chunk that would
\* exceed the budget and every chunk after it are left out, and every
\* chunk that is included carries its whole text.
C4_TokenBudget ==
    Answered =>
        LET n == Len(included)
        IN /\ n <= Len(Survivors)
           /\ Len(Blocks(context)) = n
           /\ \A k \in 1..n :
                 /\ included[k] = Survivors[k].id
                 /\ Blocks(context)[k].body = Survivors[k].text
           /\ CumTokens(Survivors, n) <= RAG_MAX_TOKENS
           /\ n < Len(Survivors) => CumTokens(Survivors, n + 1) > RAG_MAX_TOKENS

\* a chunk over the budget ended the packing although a later one would fit
C4_Witness ==
    /\ Answered
    /\ Len(included) >= 1
    /\ Len(included) + 2 <= Len(Survivors)
    /\ CumTokens(Survivors, Len(included))
         + EstTokens(Survivors[Len(included) + 2].text) <= RAG_MAX_TOKENS

ScoreOf(id) == trace.combined_scores[id]

\* C5 as stated: the fused scores of the blocks are strictly descending
C5_Original ==
    Answered =>
        \A k \in 1..(Len(included) - 1) :
            FLess(ScoreOf(included[k + 1]), ScoreOf(included[k]))

\* C5: order preservation.  The blocks of the context are the included
\* chunks in the order rank fusion sorted them: fused scores never increase
\* from one block to the next, chunks of equal score keep the order the
\* fusion sort left them in, and nothing re-sorts them afterwards.
C5_FusedOrder ==
    Answered =>
        /\ Len(Blocks(context)) = Len(included)
        /\ \A k \in 1..Len(included) :
              /\ included[k] \in Range(trace.sorted_ids)
              /\ \E i \in 1..Len(store) :
                    store[i].id = included[k] /\ BlockOf(Blocks(context)[k], i)
        /\ \A k \in 1..(Len(included) - 1) :
              /\ ~FLess(ScoreOf(included[k]), ScoreOf(included[k + 1]))
              /\ PositionIn(trace.sorted_ids, included[k])
                   < PositionIn(trace.sorted_ids, included[k + 1])

\* two blocks of one context with the same fused score
C5_Witness ==
    /\ Answered
    /\ Len(included) >= 2
    /\ Len(Blocks(context)) = Len(included)
    /\ FEq(ScoreOf(included[1]), ScoreOf(included[2]))

-----------------------------------------------------------------------------
Fused == lastOp.name = "fuse" /\ trace.ran

Disjoint == DOMAIN trace.bm25_results \cap DOMAIN trace.dense_result_dict = {}

\* score = weight / (K + rank), cross-multiplied
IsTerm(score, weight, rank) ==
    score.num * (weight.den * (K_CONST + rank)) = weight.num * score.den

NonZero(score) == score.num # 0

\* within one candidate dict, a worse rank has a strictly lower fused score
StrictlyDecreasing(dict) ==
    \A x, y \in DOMAIN dict :
        dict[x][1] < dict[y][1] => FLess(ScoreOf(y), ScoreOf(x))

\* the fused score of every identifier is the term of its own list alone
OwnTermOnly ==
    /\ \A d \in DOMAIN trace.bm25_results :
          IsTerm(ScoreOf(d), lastOp.args.bm25_weight, trace.bm25_results[d][1])
    /\ \A d \in DOMAIN trace.dense_result_dict :
          IsTerm(ScoreOf(d), lastOp.args.dense_weight, trace.dense_result_dict[d][1])

\* C10 as stated: on disjoint lists every fused score is one non-zero term
C10_Original ==
    (Fused /\ Disjoint) =>
        /\ OwnTermOnly
        /\ \A d \in DOMAIN trace.combined_scores : NonZero(ScoreOf(d))

\* C10: rank fusion on disjoint lists.  When no identifier is in both
\* candidate lists, the fused score of each identifier is exactly the term
\* of its own list, weight / (K + rank), the other list adding nothing;
\* that term is non-zero exactly when the weight of the list is non-zero;
\* and within a list of positive weight the fused scores strictly decrease
\* as the rank grows.
C10_DisjointLists ==
    (Fused /\ Disjoint) =>
        /\ DOMAIN trace.combined_scores
             = DOMAIN trace.bm25_results \cup DOMAIN trace.dense_result_dict
        /\ OwnTermOnly
        /\ \A d \in DOMAIN trace.bm25_results :
              NonZero(ScoreOf(d)) <=> lastOp.args.bm25_weight.num # 0
        /\ \A d \in DOMAIN trace.dense_result_dict :
              NonZero(ScoreOf(d)) <=> lastOp.args.dense_weight.num # 0
        /\ lastOp.args.bm25_weight.num > 0 => StrictlyDecreasing(trace.bm25_results)
        /\ lastOp.args.dense_weight.num > 0 => StrictlyDecreasing(trace.dense_result_dict)

\* disjoint lists, one of them with two ranks, fused under a zero lexical
\* weight and a positive dense weight
C10_Witness ==
    /\ Fused
    /\ Disjoint
    /\ DOMAIN trace.bm25_results # {}
    /\ Cardinality(DOMAIN trace.dense_result_dict) >= 2
    /\ lastOp.args.bm25_weight.num = 0
    /\ lastOp.args.dense_weight.num > 0

-----------------------------------------------------------------------------
\* the snapshot the index held when both threads started, and the one the
\* rebuild is installing
OldSnap == Rebuilt(built_from)

NewSnap == Rebuilt(GetAll(store))

\* the reader has loaded the index, doc_ids and id_to_metadata
ReaderLoadedAll == reader.pc = "lexical"

FromSnap(snap) ==
    /\ reader.index = snap.bm25_index
    /\ reader.ids = snap.doc_ids
    /\ reader.metadata = snap.id_to_metadata

\* C3: atomic snapshot swap.  A reader that runs while a rebuild is under
\* way uses a bm25_index, a doc_ids and an id_to_metadata that all belong
\* to the old snapshot or all belong to the new one.
C3_AtomicSnapshot ==
    ReaderLoadedAll => (FromSnap(OldSnap) \/ FromSnap(NewSnap))

\* the reader scored with the old index and then loaded the new doc_ids
C3_TornRead ==
    /\ ReaderLoadedAll
    /\ OldSnap.doc_ids # NewSnap.doc_ids
    /\ reader.index = OldSnap.bm25_index
    /\ reader.ids = NewSnap.doc_ids

-----------------------------------------------------------------------------
\* weight / (K + rank) for a listed identifier, 0 for one that is not listed
TermOrZero(dict, weight, d) ==
    IF d \in DOMAIN dict
    THEN [num |-> weight.num, den |-> weight.den * (K_CONST + dict[d][1])]
    ELSE [num |-> 0, den |-> 1]

\* score = a + b, cross-multiplied
IsSum(score, a, b) ==
    score.num * (a.den * b.den) = (a.num * b.den + b.num * a.den) * score.den

\* the same ranks under other raw values
WithRaw(dict, raw) == [d \in DOMAIN dict |-> <<dict[d][1], raw>>]

\* C11: rank fusion formula.  The fused score of every identifier of either
\* candidate list is bm25_weight / (60 + lexical rank), 0 when the lexical
\* list lacks it, plus dense_weight / (60 + dense rank), 0 when the dense
\* list lacks it; no other identifier is scored; and the same ranks under
\* any other raw BM25 scores and similarities give the same fused scores.
C11_RankFormula ==
    Fused =>
        LET a == lastOp.args
        IN /\ DOMAIN trace.combined_scores
                = DOMAIN a.bm25_results \cup DOMAIN a.dense_result_dict
           /\ \A d \in DOMAIN trace.combined_scores :
                 IsSum(ScoreOf(d),
                       TermOrZero(a.bm25_results, a.bm25_weight, d),
                       TermOrZero(a.dense_result_dict, a.dense_weight, d))
           /\ \A raw \in RawScores, sim \in Similarities :
                 CombinedScores(WithRaw(a.bm25_results, raw),
                                WithRaw(a.dense_result_dict, sim),
                                a.bm25_weight, a.dense_weight)
                    = trace.combined_scores

\* an identifier of both lists, one of the lexical list alone, a raw score
\* that is not 1, both weights positive
C11_Witness ==
    /\ Fused
    /\ lastOp.args.bm25_weight.num > 0
    /\ lastOp.args.dense_weight.num > 0
    /\ DOMAIN trace.bm25_results \cap DOMAIN trace.dense_result_dict # {}
    /\ DOMAIN trace.bm25_results \ DOMAIN trace.dense_result_dict # {}
    /\ \E d \in DOMAIN trace.bm25_results : trace.bm25_results[d][2] = 2

-----------------------------------------------------------------------------
\* the orders the fusion sort can return for the scores of this run
PossibleOrders == SortedIds(trace.combined_scores, lastOp.args.top_k)

\* C12: deterministic tie-break.  Rank fusion over the same candidate dicts,
\* weights and top_k has one possible output order, identifiers of equal
\* fused score included: every run returns the order this run returned.
C12_Deterministic ==
    Fused => \A other \in PossibleOrders : other = trace.sorted_ids

\* two identifiers of equal fused score, returned in one order although the
\* same inputs can return them in the other
C12_TieReordered ==
    /\ Fused
    /\ \E other \in PossibleOrders :
          \E i, j \in DOMAIN other :
              /\ i < j
              /\ i \in DOMAIN trace.sorted_ids
              /\ j \in DOMAIN trace.sorted_ids
              /\ other[i] = trace.sorted_ids[j]
              /\ other[j] = trace.sorted_ids[i]
              /\ FEq(ScoreOf(other[i]), ScoreOf(other[j]))

-----------------------------------------------------------------------------
IdsBuilt == lastOp.name = "doc_id" /\ results # <<>>

\* what the identifier is required to determine
KeyTuple(k) == <<k.conversation_id, k.turn_index, k.stage, k.model>>

\* C13: identifier uniqueness.  Two documents whose (conversation_id,
\* turn_index, stage, model) differ never get the same identifier.
C13_Unique ==
    IdsBuilt =>
        (results[1] = results[2] => KeyTuple(lastOp.args[1]) = KeyTuple(lastOp.args[2]))

\* one identifier for two conversations, two turns and two models
C13_Collision ==
    /\ IdsBuilt
    /\ results[1] = results[2]
    /\ lastOp.args[1].conversation_id # lastOp.args[2].conversation_id
    /\ lastOp.args[1].turn_index # lastOp.args[2].turn_index
    /\ lastOp.args[1].model # lastOp.args[2].model

-----------------------------------------------------------------------------
\* fused score < 0.01
UnderThreshold(score) == score.num * 100 < score.den

\* C14: relevance threshold.  No chunk of the context has a fused score
\* below 0.01, and when every fused result scores below 0.01 the context is
\* the empty string.
C14_Threshold ==
    RetrieveDone =>
        /\ Len(Blocks(context)) = Len(included)
        /\ \A k \in 1..Len(included) :
              /\ ~UnderThreshold(ScoreOf(included[k]))
              /\ \E j \in 1..Len(results) :
                    /\ results[j].id = included[k]
                    /\ Blocks(context)[k].body = results[j].text
        /\ (\A j \in 1..Len(results) : UnderThreshold(results[j].score))
              => context = EmptyString

\* fusion returned candidates, all of them dense-only and under the
\* threshold, and the context is empty
C14_Witness ==
    /\ RetrieveDone
    /\ failure = "none"
    /\ Len(results) >= 2
    /\ \A j \in 1..Len(results) :
          /\ UnderThreshold(results[j].score)
          /\ results[j].id \notin DOMAIN trace.bm25_results
    /\ context = EmptyString

-----------------------------------------------------------------------------
\* one turn of two opinions and a synthesis is all the collection holds, the
\* lexical index was built from it, and the query term "capital" (from the
\* question) occurs in all three documents
OneTurnIndexed ==
    /\ store = Indexed(<<TurnSmall>>)
    /\ built_from = GetAll(store)
    /\ RetrieveDone
    /\ lastOp.args = [query |-> <<Run("capital", 1)>>, conversation_id |-> <<"c1">>]

\* no collection call failed and the batched fetch returned every result
FetchedAll ==
    /\ failure = "none"
    /\ \A j \in 1..Len(results) : results[j].text # <<>>

Label(turn, stage, model) ==
    <<"[Turn", turn, "|", "Stage", stage, "|", "Model:">> \o model \o <<"]">>

HasBlock(label) == \E k \in 1..Len(Blocks(context)) : Blocks(context)[k].label = label

\* C15: an indexed turn is retrievable.  With one turn of two opinions and
\* a synthesis indexed into an empty collection and the lexical index
\* rebuilt, retrieve with a query term that occurs in all three documents
\* returns a context of three blocks, labelled with turn 0 and the stage
\* and model of each document.
C15_Retrievable ==
    (OneTurnIndexed /\ FetchedAll) =>
        /\ Len(Blocks(context)) = 3
        /\ HasBlock(Label("0", "opinion", Council[1]))
        /\ HasBlock(Label("0", "opinion", Council[2]))
        /\ HasBlock(Label("0", "synthesis", Chair))

\* every document matches the query with a negative BM25 score, none is a
\* lexical candidate, and the context is empty
C15_NothingRetrieved ==
    /\ OneTurnIndexed
    /\ FetchedAll
    /\ trace.ran
    /\ DOMAIN trace.bm25_results = {}
    /\ Cardinality(DOMAIN trace.dense_result_dict) = 3
    /\ context = EmptyString

-----------------------------------------------------------------------------
\* no call to the collection raised during the retrieve
CollectionAnswered == RetrieveDone /\ failure \notin {"get_all", "query", "get"}

\* the number of leading survivors that fit the token budget
BudgetPrefix ==
    CHOOSE n \in 0..Len(Survivors) :
        /\ CumTokens(Survivors, n) <= RAG_MAX_TOKENS
        /\ n < Len(Survivors) => CumTokens(Survivors, n + 1) > RAG_MAX_TOKENS

WellFormed(r) ==
    /\ r.text # <<>>
    /\ {"turn_index", "stage", "model"} \subseteq DOMAIN r.metadata

\* C16: malformed metadata.  A surviving result whose metadata lacks
\* turn_index, stage or model, or that the batched fetch did not return,
\* does not make retrieve fail: the context still holds a block for every
\* surviving chunk within the token budget.
C16_MalformedTolerated ==
    CollectionAnswered =>
        /\ failure = "none"
        /\ Len(Blocks(context)) = BudgetPrefix
        /\ \A k \in 1..BudgetPrefix : Blocks(context)[k].body = Survivors[k].text

\* the fetch lacked one surviving result, a well-formed survivor would have
\* fitted the budget beside it, and the context is empty
C16_ChunksLost ==
    /\ CollectionAnswered
    /\ failure = "format"
    /\ \E k \in 1..BudgetPrefix : ~WellFormed(Survivors[k])
    /\ \E k \in 1..BudgetPrefix : WellFormed(Survivors[k])
    /\ context = EmptyString

-----------------------------------------------------------------------------
\* C17: rebuild failure.  When the full-collection fetch of an explicit
\* refresh raises, the exception reaches the caller of the refresh, and
\* doc_ids, id_to_doc, id_to_metadata and bm25_index stay as they were.
C17_RebuildFailure ==
    [][(lastOp'.name = "refresh_hybrid_index" /\ failure' = "get_all") =>
          /\ raised'
          /\ storeCalls' = <<"get">>
          /\ snapshot' = snapshot]_vars

\* a refresh failed on its fetch with an index over one document installed
C17_Witness ==
    /\ lastOp.name = "refresh_hybrid_index"
    /\ failure = "get_all"
    /\ raised
    /\ bm25_index # NoIndex
    /\ doc_ids # <<>>

\* C18: index_session never rebuilds.  A call to index_session leaves
\* doc_ids, id_to_doc, id_to_metadata and bm25_index unchanged and makes no
\* full-collection fetch; of the engine's state only the collection changes.
C18_IndexNoRebuild ==
    [][lastOp'.name = "index_session" =>
          /\ snapshot' = snapshot
          /\ enabled' = enabled
          /\ \A k \in 1..Len(storeCalls') : storeCalls'[k] = "upsert"]_vars

\* index_session wrote to a collection whose index was built before the
\* write: the index is now stale
C18_Witness ==
    /\ lastOp.name = "index_session"
    /\ storeCalls = <<"upsert">>
    /\ ~raised
    /\ bm25_index # NoIndex
    /\ built_from # GetAll(store)

-----------------------------------------------------------------------------
\* an enabled engine has run index_session
IndexedOnce == lastOp.name = "index_session" /\ enabled

\* the stored documents that carry the timestamp of this call
Written == {i \in 1..Len(store) : store[i].metadata.timestamp = clock - 1}

WrittenAs(stage) == {i \in Written : store[i].metadata.stage = stage}

HasSynthesis(a) ==
    "response" \in DOMAIN a.stage3_result /\ a.stage3_result.response # <<>>

\* C19: documents per indexed turn.  An enabled index_session with n
\* opinions writes n opinion documents, and one synthesis document when the
\* synthesis text is not empty and none when it is, under pairwise distinct
\* identifiers, in one upsert call; with nothing to write it makes no call.
C19_DocumentsPerTurn ==
    IndexedOnce =>
        LET a == lastOp.args
            n == Len(a.stage1_results)
            s == IF HasSynthesis(a) THEN 1 ELSE 0
        IN /\ storeCalls = IF n + s > 0 THEN <<"upsert">> ELSE <<>>
           /\ raised => Written = {}
           /\ ~raised =>
                 /\ Cardinality(WrittenAs("opinion")) = n
                 /\ Cardinality(WrittenAs("synthesis")) = s
                 /\ Cardinality(Written) = n + s
                 /\ Cardinality({store[i].id : i \in Written}) = n + s
                 /\ \A i \in Written :
                       /\ store[i].metadata.conversation_id = a.conversation_id
                       /\ store[i].metadata.turn_index = a.turn_index

\* three opinions, two of them by the same model, and a synthesis, written
\* over a collection that already held the turn
C19_Witness ==
    /\ IndexedOnce
    /\ ~raised
    /\ Len(lastOp.args.stage1_results) = 3
    /\ lastOp.args.stage1_results[1].model = lastOp.args.stage1_results[3].model
    /\ HasSynthesis(lastOp.args)
    /\ Cardinality(Written) = 4
    /\ Len(store) > 4

-----------------------------------------------------------------------------
\* the retrieve ran on a lexical index built before the last writes
Stale == RetrieveDone /\ bm25_index # NoIndex /\ built_from # GetAll(store)

StoredAt(id) == CHOOSE i \in 1..Len(store) : store[i].id = id

-----------------------------------------------------------------------------
\* both index_session calls have returned
BothReturned == DOMAIN writer = Callers /\ \A t \in Callers : writer[t].pc = "done"

\* the record call t wrote under an identifier, if it wrote one
RecordsOf(t, id) == {writer[t].docs[k] : k \in {j \in 1..Len(writer[t].docs) : writer[t].docs[j].id = id}}

SharedIds == {id \in IdsOf(store) : \A t \in Callers : RecordsOf(t, id) # {}}

-----------------------------------------------------------------------------
\* the handler has returned or raised
Finished == handler.status \in {"returned", "raised"}

\* positions of the log where a call of that name was made
CallsOf(name) == {k \in 1..Len(handler.log) : handler.log[k].kind = "call" /\ handler.log[k].name = name}

\* the assistant message of a council turn has been persisted
Persisted == \E k \in CallsOf("storage.add_assistant_message") : handler.log[k].ok

NoCallRaised == \A k \in 1..Len(handler.log) : handler.log[k].ok

\* C22: in every council-mode handler (send_message and send_message_stream),
\* once the assistant message of a completed council turn has been persisted,
\* index_session is invoked exactly once for that turn and
\* refresh_hybrid_index exactly once after it, before the handler finishes.
\* Stated for the runs in which no call raises.
C22_CallerProtocol ==
    (Finished /\ Persisted /\ NoCallRaised) =>
        /\ Cardinality(CallsOf("rag_system.index_session")) = 1
        /\ Cardinality(CallsOf("rag_system.refresh_hybrid_index")) = 1
        /\ \A i \in CallsOf("rag_system.index_session") :
              /\ handler.log[i].turn = get_turn_index(handler.messages) - 1
              /\ \A p \in CallsOf("storage.add_assistant_message") : p < i
              /\ \A r \in CallsOf("rag_system.refresh_hybrid_index") : i < r

\* send_message has persisted the assistant message and left by an
\* UnboundLocalError, with no call of index_session
C22_NeverIndexed ==
    /\ handler.status = "raised"
    /\ handler.kind = "send_message"
    /\ handler.error = "UnboundLocalError"
    /\ Persisted
    /\ NoCallRaised
    /\ CallsOf("rag_system.index_session") = {}

-----------------------------------------------------------------------------
IsEvent(e) == e.kind = "event"

\* the names of the events yielded so far, in order
EventsYielded == [k \in 1..Len(SelectSeq(handler.log, IsEvent)) |-> SelectSeq(handler.log, IsEvent)[k].name]

\* the events of a council turn that runs to its end
AllEvents(first) ==
    <<"stage1_start", "stage1_complete", "stage2_start", "stage2_complete",
      "stage3_start", "stage3_complete">>
    \o (IF first THEN <<"title_complete">> ELSE <<>>) \o <<"complete">>

IsPrefix(a, b) == Len(a) <= Len(b) /\ a = SubSeq(b, 1, Len(a))

\* position of the event of that name in the log
EventAt(name) == CHOOSE k \in 1..Len(handler.log) : IsEvent(handler.log[k]) /\ handler.log[k].name = name

\* the event generator of a council turn has been started (the 404 of main.py
\* 288-289 is raised before there is a generator)
StreamingCouncil ==
    /\ handler.status # "start"
    /\ handler.error # "HTTPException"
    /\ handler.kind = "stream"
    /\ handler.mode = "council"

\* C30: in council mode send_message_stream emits stage1_start,
\* stage1_complete, stage2_start, stage2_complete, stage3_start,
\* stage3_complete, then title_complete only for a first message, then
\* complete, in that order, with the assistant message persisted and
\* index_session and refresh_hybrid_index run between stage3_complete and
\* complete; if any step raises, an error event is the last event and no
\* complete event follows.
C30_EventOrder ==
    StreamingCouncil =>
        LET ev == EventsYielded
            full == AllEvents(handler.first)
        IN /\ handler.error = "none" =>
                /\ IsPrefix(ev, full)
                /\ handler.status = "returned" => ev = full
                /\ (ev = full) =>
                      \E p \in CallsOf("storage.add_assistant_message"),
                         i \in CallsOf("rag_system.index_session"),
                         r \in CallsOf("rag_system.refresh_hybrid_index") :
                            /\ EventAt("stage3_complete") < p
                            /\ p < i
                            /\ i < r
                            /\ r < EventAt("complete")
           /\ handler.error # "none" =>
                /\ handler.status = "returned"
                /\ ev # <<>>
                /\ ev[Len(ev)] = "error"
                /\ IsPrefix(SubSeq(ev, 1, Len(ev) - 1), full)
                /\ \A k \in 1..Len(ev) : ev[k] # "complete"

\* the generator of a first message has run to its end, title included
C30_Witness ==
    /\ StreamingCouncil
    /\ handler.status = "returned"
    /\ handler.first
    /\ EventsYielded = AllEvents(TRUE)
    /\ NoCallRaised

\* a call of the generator raised after stage3_complete and the error event
\* closed the stream
C30_ErrorWitness ==
    /\ StreamingCouncil
    /\ handler.status = "returned"
    /\ handler.error = "Exception"
    /\ Len(EventsYielded) = 7
    /\ EventsYielded[7] = "error"

-----------------------------------------------------------------------------
CostReturned == lastOp.name = "calculate_cost" /\ results # <<>>

\* the registry entries of a model id
Priced(model_id) == {i \in 1..Len(AVAILABLE_MODELS) : AVAILABLE_MODELS[i].id = model_id}

\* a token count of the usage mapping, 0 when the mapping has none
Count(usage, key) == IF key \in DOMAIN usage THEN usage[key] ELSE 0

\* C23: calculate_cost returns 0 whenever the usage mapping is empty or the
\* model id is not in AVAILABLE_MODELS; otherwise it returns
\* prompt_tokens/1,000,000 x input price + completion_tokens/1,000,000 x
\* output price of that model, a missing token count treated as 0.
C23_Cost ==
    CostReturned =>
        LET usage == lastOp.args.usage
            model_id == lastOp.args.model_id
        IN IF DOMAIN usage = {} \/ Priced(model_id) = {}
           THEN results[1] = 0
           ELSE \A i \in Priced(model_id) :
                   results[1] = Count(usage, "prompt_tokens") * AVAILABLE_MODELS[i].pricing.input
                                + Count(usage, "completion_tokens") * AVAILABLE_MODELS[i].pricing.output

\* the case of the test: 1000 tokens each way on openai/gpt-4o-mini is
\* 0.00075 dollars
C23_Witness ==
    /\ CostReturned
    /\ lastOp.args.model_id = "openai/gpt-4o-mini"
    /\ lastOp.args.usage = [prompt_tokens |-> 1000, completion_tokens |-> 1000]
    /\ results[1] = 750000

-----------------------------------------------------------------------------
AnalyticsReturned == lastOp.name = "get_analytics" /\ storeCalls # <<>>

\* where a model stands in the rankings that get_analytics can read: file,
\* message, judge and 1-based position of a label mapped to it
Standings(m) ==
    LET files == lastOp.args.files
    IN { s \in UNION { UNION { UNION { {<<f, i, j, k>> :
                 k \in 1..Len(files[f].messages[i].stage2[j].parsed_ranking)} :
                 j \in 1..Len(files[f].messages[i].stage2)} :
                 i \in {x \in 1..Len(files[f].messages) :
                           {"stage2", "metadata"} \subseteq DOMAIN files[f].messages[x]}} :
                 f \in {x \in 1..Len(files) : files[x].json /\ files[x].readable}} :
           LET msg == files[s[1]].messages[s[2]]
               label == msg.stage2[s[3]].parsed_ranking[s[4]]
           IN /\ label \in DOMAIN msg.metadata.label_to_model
              /\ msg.metadata.label_to_model[label] = m }

RECURSIVE SumPositions(_)
SumPositions(S) == IF S = {} THEN 0 ELSE LET s == CHOOSE x \in S : TRUE IN s[4] + SumPositions(S \ {s})

FirstPlaces(m) == {s \in Standings(m) : s[4] = 1}

RankedModels == {m \in {"model_a", "model_b", "model_c"} : Standings(m) # {}}

RowsOf(m) == {k \in 1..Len(results) : results[k].model = m}

\* twice the distance between a reported value and n/d, in units of 1/d
WithinHalf(reported, n, d) == 2 * reported * d - 2 * n <= d /\ 2 * n - 2 * reported * d <= d

\* C24 as stated: for every model that appears under a mapped label in some
\* judge's parsed ranking, average_rank is the sum of its 1-based positions
\* divided by its number of appearances and win_rate is 100 x first places /
\* appearances; a model that never appears is not reported.
C24_Original ==
    AnalyticsReturned =>
        /\ \A m \in RankedModels :
              /\ Cardinality(RowsOf(m)) = 1
              /\ \A k \in RowsOf(m) :
                    /\ results[k].average_rank * Cardinality(Standings(m))
                          = 100 * SumPositions(Standings(m))
                    /\ results[k].win_rate * Cardinality(Standings(m))
                          = 1000 * Cardinality(FirstPlaces(m))
        /\ \A k \in 1..Len(results) : results[k].model \in RankedModels

\* C24, amended: average_rank is that quotient rounded to two decimals and
\* win_rate that percentage rounded to one decimal; a model that never
\* appears is not reported.
C24_Rounded ==
    AnalyticsReturned =>
        /\ \A m \in RankedModels :
              /\ Cardinality(RowsOf(m)) = 1
              /\ \A k \in RowsOf(m) :
                    /\ WithinHalf(results[k].average_rank,
                                  100 * SumPositions(Standings(m)),
                                  Cardinality(Standings(m)))
                    /\ WithinHalf(results[k].win_rate,
                                  1000 * Cardinality(FirstPlaces(m)),
                                  Cardinality(Standings(m)))
        /\ \A k \in 1..Len(results) : results[k].model \in RankedModels

\* model_a stood first, second and second: 1.67 and 33.3 are reported, with
\* model_b and model_c beside it
C24_Witness ==
    /\ AnalyticsReturned
    /\ Len(results) = 3
    /\ \E k \in RowsOf("model_a") :
          /\ SumPositions(Standings("model_a")) = 5
          /\ results[k].evaluations = 3
          /\ results[k].average_rank = 167
          /\ results[k].win_rate = 333

-----------------------------------------------------------------------------
\* the lexical ranks that entered fusion
LexicalRanks == {trace.bm25_results[d][1] : d \in DOMAIN trace.bm25_results}

\* C25: the lexical list that enters fusion carries rank positions exactly
\* 1..N (1 = best), N the number of lexical candidates of the requested
\* conversation, with no gaps left by documents of other conversations or by
\* discarded non-positive scores.
C25_RanksWithoutGaps ==
    (RetrieveDone /\ trace.ran) =>
        LexicalRanks = 1..Cardinality(DOMAIN trace.bm25_results)

\* the only lexical candidate of the requested conversation entered fusion
\* with rank 2, behind a document of another conversation
C25_GapLeft ==
    /\ RetrieveDone
    /\ trace.ran
    /\ Cardinality(DOMAIN trace.bm25_results) = 1
    /\ LexicalRanks = {2}
    /\ \E i \in 1..Len(doc_ids) :
          /\ doc_ids[i] \notin DOMAIN trace.bm25_results
          /\ id_to_metadata[doc_ids[i]].conversation_id # Requested

-----------------------------------------------------------------------------
\* a direct call went through scoring and fusion
DirectRan == lastOp.name = "hybrid_retrieve" /\ trace.ran

Candidates == DOMAIN trace.bm25_results \cup DOMAIN trace.dense_result_dict

\* C26: in every HybridRetriever.retrieve call the lexical candidate list and
\* the dense candidate list each hold at most 2 x top_k entries, no lexical
\* candidate has a BM25 score <= 0, and the returned list holds at most
\* top_k results, which are the top_k highest fused scores of the candidate
\* union.
C26_CandidateBounds ==
    DirectRan =>
        LET top_k == lastOp.args.top_k
        IN /\ Cardinality(DOMAIN trace.bm25_results) <= 2 * top_k
           /\ Cardinality(DOMAIN trace.dense_result_dict) <= 2 * top_k
           /\ \A d \in DOMAIN trace.bm25_results : trace.bm25_results[d][2] > 0
           /\ failure = "none" =>
                 /\ Len(results) = Min(top_k, Cardinality(Candidates))
                 /\ \A k \in 1..Len(results) : results[k].id \in Candidates
                 /\ \A k \in 1..Len(results) :
                       \A d \in Candidates \ ResultIds :
                          ~FLess(results[k].score, trace.combined_scores[d])
                 /\ \A k \in 1..Len(results) :
                       FEq(results[k].score, trace.combined_scores[results[k].id])

\* top_k = 1 on a conversation of three matching documents: both lists were
\* cut to two entries and one of three candidates was returned
C26_Witness ==
    /\ DirectRan
    /\ failure = "none"
    /\ lastOp.args.top_k = 1
    /\ Cardinality({i \in 1..Len(store) : ConvOfStored(i) = Requested}) = 3
    /\ Cardinality(DOMAIN trace.bm25_results) = 2
    /\ Cardinality(DOMAIN trace.dense_result_dict) = 2
    /\ Cardinality(Candidates) = 3
    /\ Len(results) = 1

-----------------------------------------------------------------------------
\* the retrieves of the run that fetched the whole collection: the fetch of
\* _rebuild_bm25_index is the first collection call of such a retrieve
FullFetches == {k \in 1..Len(handler.log) : handler.log[k].calls # <<>> /\ handler.log[k].calls[1] = "get"}

\* C27: in any sequence of retrieve calls with no intervening refresh, the
\* full-collection fetch and index build is performed at most once (on the
\* first retrieve); later retrieve calls reuse the snapshot and do not
\* rebuild or otherwise modify it.
C27_BuiltOnce ==
    /\ FullFetches \subseteq {1}
    /\ \A k \in 2..Len(handler.log) : handler.log[k].after = handler.log[k].before

\* the collection is empty and two retrieves in a row have each fetched it,
\* neither failing
C27_FetchedAgain ==
    /\ store = <<>>
    /\ Len(handler.log) = 2
    /\ FullFetches = {1, 2}
    /\ \A k \in 1..2 : handler.log[k].failure = "none"

\* a turn was indexed after the first retrieve and the second retrieve built
\* the snapshot from it
C27_BuiltLater ==
    /\ Len(handler.log) = 2
    /\ handler.log[1].failure = "none"
    /\ handler.log[2].failure = "none"
    /\ handler.log[2].before # handler.log[2].after

-----------------------------------------------------------------------------
InBoth(d) == d \in DOMAIN trace.bm25_results /\ d \in DOMAIN trace.dense_result_dict

\* the fused score of ranks r and d under the default weights
DefaultFused(r, d) == FAdd(RRFTerm(DEFAULT_WEIGHT, r), RRFTerm(DEFAULT_WEIGHT, d))

\* C28: with the defaults of CouncilRAG.retrieve (weights 0.5/0.5, K = 60,
\* top_k = 10, threshold 0.01) a document appears in the context only if it
\* is in both candidate lists: a document in one list only scores at most
\* 0.5/61 < 0.01 and is dropped, a document in both lists (ranks <= 20)
\* scores at least 0.0125 and passes the threshold.
C28_BothListsNeeded ==
    /\ \A r \in 1..(2 * TOP_K) :
          /\ BelowThreshold(RRFTerm(DEFAULT_WEIGHT, r))
          /\ ~FLess(Frac(1, 122), RRFTerm(DEFAULT_WEIGHT, r))
          /\ \A d \in 1..(2 * TOP_K) :
                /\ ~BelowThreshold(DefaultFused(r, d))
                /\ ~FLess(DefaultFused(r, d), Frac(1, 80))
    /\ (RetrieveDone /\ trace.ran) =>
          /\ \A k \in 1..Len(included) : InBoth(included[k])
          /\ \A d \in DOMAIN trace.combined_scores :
                /\ ~InBoth(d) => /\ BelowThreshold(trace.combined_scores[d])
                                 /\ \A j \in 1..Len(FilteredChunks(results)) :
                                       FilteredChunks(results)[j].id # d
                /\ InBoth(d) => ~BelowThreshold(trace.combined_scores[d])
          /\ \A j \in 1..Len(results) :
                InBoth(results[j].id) =>
                   \E i \in 1..Len(FilteredChunks(results)) :
                      FilteredChunks(results)[i].id = results[j].id

\* one document of the conversation was in both lists and is in the context,
\* two were in the dense list only and were dropped
C28_Witness ==
    /\ RetrieveDone
    /\ failure = "none"
    /\ Len(included) = 1
    /\ InBoth(included[1])
    /\ Cardinality({j \in 1..Len(results) :
                       /\ results[j].id \notin DOMAIN trace.bm25_results
                       /\ results[j].id \notin Range(included)}) = 2

-----------------------------------------------------------------------------
TenantRan == lastOp.name = "hybrid_retrieve" /\ trace.ran

RequestedConv == lastOp.args.conversation_id

\* positions of the snapshot that hold a document of the requested
\* conversation with a positive score for the query
OwnPositive ==
    {i \in 1..Len(doc_ids) :
        /\ ConvMatches(Get(id_to_metadata, doc_ids[i], NoMeta), RequestedConv)
        /\ handler.bm25_scores[i] > 0}

\* positions of the snapshot that hold a document of another conversation
ForeignPositions ==
    {i \in 1..Len(doc_ids) :
        ~ConvMatches(Get(id_to_metadata, doc_ids[i], NoMeta), RequestedConv)}

\* C29: when the snapshot holds a document of the requested conversation
\* with a positive BM25 score, at least one document of that conversation
\* enters the lexical candidate list, whatever the other conversations hold.
C29_OwnDocumentRecalled ==
    (TenantRan /\ OwnPositive # {}) => DOMAIN trace.bm25_results # {}

\* the only document of the requested conversation scored positive, the cut
\* argsort held two documents of the other conversation, and the lexical
\* list came out empty
C29_CrowdedOut ==
    /\ TenantRan
    /\ OwnPositive # {}
    /\ DOMAIN trace.bm25_results = {}
    /\ Range(handler.top_indices) \subseteq ForeignPositions
    /\ Cardinality(ForeignPositions) = 2

=========================================================================
